---------------------------- MODULE Spec2Model ----------------------------
(***************************************************************************)
(* Batch translation engine of tradusco (lib/TranslationProject.py).       *)
(*                                                                         *)
(* TranslationProject.translate reads the rows and the progress cache,     *)
(* walks the rows once, packs the untranslated phrases into batches, sends *)
(* each batch to the model through the driver, parses the reply (with one  *)
(* JSON repair round-trip), merges the result into rows and cache and      *)
(* saves both after every batch and once more at the end.                  *)
(*                                                                         *)
(* A second specification, DriverSpec, follows one call of a driver        *)
(* (lib/llm/BaseDriver.py) attempt by attempt, with its sleeps.            *)
(*                                                                         *)
(* Each await of the coroutine that reaches the model (llm.ainvoke) is a   *)
(* step boundary; everything the code does between two such awaits is one  *)
(* action.  Row indices are 1-based here (0-based in the source).          *)
(***************************************************************************)
EXTENDS Integers, Sequences, FiniteSets, TLC

(***************************************************************************)
(* Bounds of the model.                                                    *)
(***************************************************************************)
MaxRows == 2
MaxRuns == 2
\* rows of a source file that repeats one phrase
RepeatedRows == 3
MaxDriverRetries == 3
\* most phrases handed to one call of the parser
MaxPhrases == 2
\* most elements of an array, or entries of an object, in a reply handed to the parser
MaxItems == 2
\* most characters of a prompt template handed to format_prompt
MaxTemplate == 4

\* translate(batch_size=..., batch_max_bytes=..., max_retries=...): the values tried
BatchSizeChoices == {1, 2}
BatchMaxBytesChoices == {4, 100}
MaxRetriesChoices == {3}

\* translate(model=...): a registered name and one that is not
ModelChoices == {"gemini", "nonesuch"}

\* TranslationProject(project_name, dst_language): a language of the project and one
\* that is not
DstLanguageChoices == {"es", "xx"}

\* config["languages"] of the project of the model
Languages == {"en", "es"}

\* lib/llm/__init__.py: the keys of drivers
RegisteredModels ==
    { "gemini", "grok", "openai",
      "openrouter-gemini-2.0-flash-lite-preview-02-05", "openrouter-grok-2-1212",
      "openrouter-grok-3-beta", "openrouter-deepseek-r1-free" }

\* _fix_invalid_json: driver.translate_async(prompt, delay_seconds=1.0, max_retries=2)
FixMaxRetries == 2

(***************************************************************************)
(* Phrases and their translations.                                         *)
(***************************************************************************)
\* len(source_phrase.encode("utf-8")) for the phrases of the model
Utf8Len(s) ==
    CASE s = "Hello" -> 5
      [] s = "Bye" -> 3
      [] OTHER -> 0

\* what the model answers for a phrase when it answers well
\* ("Adios" stands for the non-ASCII "Adiós")
Tr(p) ==
    CASE p = "Hello" -> "Hola"
      [] p = "Bye" -> "Adios"
      [] OTHER -> "?"

\* one CSV row: base-language cell, destination-language cell, context cell
Row(b, d, c) == [base |-> b, dst |-> d, context |-> c]

\* the rows a source file of the model is made of
RowChoices ==
    { Row("Hello", "", "greeting"),
      Row("Hello", "Salut", ""),
      Row("Bye", "", ""),
      Row("", "", "") }

\* the progress.json documents a run of the model may start from
EmptyProgress == [p \in {} |-> ""]

ProgressChoices == { EmptyProgress, [p \in {"Hello"} |-> "Ola"] }

RECURSIVE SeqsUpTo(_, _)
SeqsUpTo(S, n) ==
    IF n = 0 THEN { <<>> }
    ELSE LET shorter == SeqsUpTo(S, n - 1)
         IN  shorter \cup { Append(q, x) : q \in { r \in shorter : Len(r) = n - 1 }, x \in S }

\* a source file in which one phrase stands in RepeatedRows rows: the first of them
\* is untranslated, and one at least of the others is translated already
RepeatedRowChoices == { r \in RowChoices : r.base = "Hello" }

RepeatedFiles ==
    { q \in SeqsUpTo(RepeatedRowChoices, RepeatedRows) :
          /\ Len(q) = RepeatedRows
          /\ q[1].dst = ""
          /\ \E n \in 2..Len(q) : q[n].dst # "" }

(***************************************************************************)
(* JSON values as json.loads returns them.  Every value has the same       *)
(* shape: t is the type, s the text of a string, items the elements of a   *)
(* list or the entries of a dict (an entry is the value with its key in k).*)
(***************************************************************************)
JStr(x) == [t |-> "str", k |-> "", s |-> x, items |-> <<>>]
JList(xs) == [t |-> "list", k |-> "", s |-> "", items |-> xs]
JDict(es) == [t |-> "dict", k |-> "", s |-> "", items |-> es]
JNull == [t |-> "null", k |-> "", s |-> "", items |-> <<>>]
Entry(key, v) == [v EXCEPT !.k = key]
Value(e) == [e EXCEPT !.k = ""]

\* "key" in d
HasKey(d, key) == d.t = "dict" /\ \E n \in 1..Len(d.items) : d.items[n].k = key

\* d[key]
Get(d, key) == Value(d.items[CHOOSE n \in 1..Len(d.items) : d.items[n].k = key])

\* the text of a model reply: the candidate JSON payload it carries, fenced in a
\* code block or not.  A payload that is not valid JSON has no value.
Payload(ok, v) == [valid |-> ok, value |-> v]
Response(f, p) == [fence |-> f, payload |-> p]
InvalidPayload == Payload(FALSE, JNull)
\* no text at all (what stands between the fences of an empty code block)
EmptyPayload == Payload(FALSE, JStr(""))
\* a text that the regular expressions cut to something json.loads rejects
GarbledPayload == Payload(FALSE, JStr("garbled"))
\* another text that is not valid JSON (what a repair call may answer)
StillInvalidPayload == Payload(FALSE, JStr("still broken"))
NoResponse == Response(FALSE, InvalidPayload)

\* the candidate the two regular expressions (code block, then first array or
\* object) cut out of the reply
ExtractJson(resp) == resp.payload

\* response.replace(e.json_str, fixed_json_str).  str.replace with an empty first
\* argument puts the replacement before every character and after the last one: an
\* empty reply becomes the replacement, a reply that is only a pair of code fences
\* becomes copies of the replacement with single backquotes in between
ReplaceJson(resp, old, new) ==
    IF old = EmptyPayload
    THEN IF resp.fence /\ resp.payload = EmptyPayload
         THEN Response(FALSE, GarbledPayload)
         ELSE IF resp.payload = EmptyPayload THEN [resp EXCEPT !.payload = new] ELSE resp
    ELSE IF resp.payload = old THEN [resp EXCEPT !.payload = new] ELSE resp

\* str.isdigit() and int() on the keys of the model
IsDigit(key) == key \in {"0", "1", "2", "3", "4"}

IntOf(key) ==
    CASE key = "0" -> 0
      [] key = "1" -> 1
      [] key = "2" -> 2
      [] key = "3" -> 3
      [] OTHER -> 4

\* m[key] = v on a dict
Put(m, key, v) == [x \in (DOMAIN m) \cup {key} |-> IF x = key THEN v ELSE m[x]]

\* phrase in original_phrases
InPhrases(p, phrases) == \E n \in 1..Len(phrases) : phrases[n] = p

EmptyMap == [p \in {} |-> JNull]

(***************************************************************************)
(* _parse_batch_response (TranslationProject.py 291-353).                  *)
(***************************************************************************)
\* what an element of a list gives for its phrase, if anything
Found(v) == [found |-> TRUE, value |-> v]

NotFound == [found |-> FALSE, value |-> JNull]

\* slip: the text field of an element is not looked at
ElementTranslation_NoText(translation) ==
    IF translation.t = "str" THEN Found(translation)
    ELSE IF translation.t = "dict" /\ HasKey(translation, "translation")
    THEN Found(Get(translation, "translation"))
    ELSE NotFound

\* lines 323-331: a string, or an object by its translation field, else by its text field
ElementTranslation(translation) ==
    IF translation.t = "str" THEN Found(translation)
    ELSE IF translation.t = "dict"
    THEN IF HasKey(translation, "translation") THEN Found(Get(translation, "translation"))
         ELSE IF HasKey(translation, "text") THEN Found(Get(translation, "text"))
         ELSE NotFound
    ELSE NotFound

\* lines 320-331: a decoded list, matched to the phrases by position
RECURSIVE ParseList(_, _, _, _)
ParseList(items, original_phrases, n, acc) ==
    IF n > Len(items) THEN acc
    ELSE LET translation == ElementTranslation(items[n])
             next ==
                 IF n <= Len(original_phrases) /\ translation.found
                 THEN Put(acc, original_phrases[n], translation.value)
                 ELSE acc
         IN  ParseList(items, original_phrases, n + 1, next)

\* original_phrases[int(original) - 1]: Python counts a negative index from the end
PyIndex(original_phrases, j) ==
    IF j >= 0 THEN original_phrases[j + 1]
    ELSE original_phrases[Len(original_phrases) + j + 1]

\* lines 334-347: a decoded dict, entry by entry; err is an exception raised
\* inside the try block (translation["translation"] on a missing key)
RECURSIVE ParseDict(_, _, _, _)
ParseDict(entries, original_phrases, n, acc) ==
    IF n > Len(entries) THEN [err |-> FALSE, map |-> acc]
    ELSE LET original == entries[n].k
             translation == Value(entries[n])
         IN  IF InPhrases(original, original_phrases)
             THEN ParseDict(entries, original_phrases, n + 1, Put(acc, original, translation))
             ELSE IF translation.t = "dict" /\ HasKey(translation, "text")
             THEN LET original_text == Get(translation, "text")
                  IN  IF original_text.t = "str" /\ InPhrases(original_text.s, original_phrases)
                      THEN IF HasKey(translation, "translation")
                           THEN ParseDict(entries, original_phrases, n + 1,
                                          Put(acc, original_text.s, Get(translation, "translation")))
                           ELSE [err |-> TRUE, map |-> acc]
                      ELSE ParseDict(entries, original_phrases, n + 1, acc)
             ELSE IF /\ IsDigit(original)
                     /\ IntOf(original) - 1 < Len(original_phrases)
                     /\ Len(original_phrases) > 0
             THEN ParseDict(entries, original_phrases, n + 1,
                            Put(acc, PyIndex(original_phrases, IntOf(original) - 1), translation))
             ELSE IF IsDigit(original) /\ IntOf(original) - 1 < Len(original_phrases)
             THEN [err |-> TRUE, map |-> acc]
             ELSE ParseDict(entries, original_phrases, n + 1, acc)

\* slip: the exception is raised without the fragment
InvalidJSON_NoFragment(json_str) ==
    [ok |-> FALSE, json_str |-> EmptyPayload, translations |-> EmptyMap]

\* lines 349-351: raise InvalidJSONException(f"Error parsing JSON response: {e}", json_str)
InvalidJSON(json_str) ==
    [ok |-> FALSE, json_str |-> json_str, translations |-> EmptyMap]

\* the whole parser: ok = FALSE is InvalidJSONException(json_str)
ParseBatchResponse(resp, original_phrases) ==
    LET json_str == ExtractJson(resp)
        translated_items == json_str.value
    IN  IF ~json_str.valid
        THEN InvalidJSON(json_str)
        ELSE IF translated_items.t = "list"
        THEN [ok |-> TRUE, json_str |-> json_str,
              translations |-> ParseList(translated_items.items, original_phrases, 1, EmptyMap)]
        ELSE IF translated_items.t = "dict"
        THEN LET r == ParseDict(translated_items.items, original_phrases, 1, EmptyMap)
             IN  IF r.err THEN InvalidJSON(json_str)
                 ELSE [ok |-> TRUE, json_str |-> json_str, translations |-> r.map]
        ELSE [ok |-> TRUE, json_str |-> json_str, translations |-> EmptyMap]

(***************************************************************************)
(* _update_translations_from_batch (TranslationProject.py 355-386).        *)
(***************************************************************************)
\* the value a row cell or a cache entry holds for a parsed translation; a
\* translation that is no string stands in the cell as the object itself
AsCell(v) == IF v.t = "str" THEN v.s ELSE "<" \o v.t \o ">"

\* slip: the row is replaced by a new one that holds the two language cells only
SetDst_NewRow(rows, index, value) == [rows EXCEPT ![index] = Row(@.base, value, "")]

\* lines 379 and 439: row[self.dst_language] = translation, the one assignment
\* translate makes to a row
SetDst(rows, index, value) == [rows EXCEPT ![index].dst = value]

RECURSIVE UpdateFrom(_, _, _, _, _, _, _)
UpdateFrom(batch_translations, phrases, indices, rows, prog, n, count) ==
    IF n > Len(phrases)
    THEN [translations |-> rows, progress |-> prog, updates_count |-> count]
    ELSE LET phrase == phrases[n]
         IN  IF phrase \in DOMAIN batch_translations
             THEN UpdateFrom(batch_translations, phrases, indices,
                             SetDst(rows, indices[n], AsCell(batch_translations[phrase])),
                             Put(prog, phrase, AsCell(batch_translations[phrase])),
                             n + 1, count + 1)
             ELSE UpdateFrom(batch_translations, phrases, indices, rows, prog, n + 1, count)

\* slip: a reply that does not map every phrase of the batch is thrown away
UpdateTranslationsFromBatch_AllOrNothing(batch_translations, phrases, indices, rows, prog) ==
    IF \A n \in 1..Len(phrases) : phrases[n] \in DOMAIN batch_translations
    THEN UpdateFrom(batch_translations, phrases, indices, rows, prog, 1, 0)
    ELSE [translations |-> rows, progress |-> prog, updates_count |-> 0]

UpdateTranslationsFromBatch(batch_translations, phrases, indices, rows, prog) ==
    UpdateFrom(batch_translations, phrases, indices, rows, prog, 1, 0)

(***************************************************************************)
(* What the model may answer.                                              *)
(***************************************************************************)
Translated(phrases, n) == [m \in 1..n |-> JStr(Tr(phrases[m]))]

\* the replies to a translation prompt for a batch
ReplyKinds == {"translations_object", "list", "short_list", "invalid", "empty_fence"}

Reply(kind, phrases) ==
    CASE kind = "translations_object" ->
             Response(FALSE, Payload(TRUE,
                 JDict(<< Entry("translations", JList(Translated(phrases, Len(phrases)))) >>)))
      [] kind = "list" ->
             Response(TRUE, Payload(TRUE, JList(Translated(phrases, Len(phrases)))))
      [] kind = "short_list" ->
             Response(TRUE, Payload(TRUE, JList(Translated(phrases, Len(phrases) - 1))))
      [] kind = "dict" ->
             Response(FALSE, Payload(TRUE,
                 JDict([m \in 1..Len(phrases) |-> Entry(phrases[m], JStr(Tr(phrases[m])))])))
      [] kind = "still_invalid" -> Response(FALSE, StillInvalidPayload)
      [] kind = "empty_fence" -> Response(TRUE, EmptyPayload)
      [] OTHER -> Response(FALSE, InvalidPayload)

\* the replies to a json_fix prompt
FixReplyKinds == {"dict", "still_invalid"}

(***************************************************************************)
(* The decisions of translate (TranslationProject.py 388-489).             *)
(***************************************************************************)
\* line 428: if row[self.dst_language]
IsTranslated(row) == row.dst # ""

\* slip: a translated row is skipped without a look at the cache
NeedsBackfill_Never(source_phrase, prog) == FALSE

\* slip: the backfill overwrites an entry the cache already has
NeedsBackfill_Always(source_phrase, prog) == TRUE

\* line 430: if source_phrase not in progress (backfill)
NeedsBackfill(source_phrase, prog) == source_phrase \notin DOMAIN prog

\* slip: a row with a context of its own does not use the cache
IsCacheHit_NoContext(row, prog) == row.base \in DOMAIN prog /\ row.context = ""

\* slip: the cache is not consulted
IsCacheHit_Never(row, prog) == FALSE

\* line 436: if source_phrase in progress
IsCacheHit(row, prog) == row.base \in DOMAIN prog

\* slip: the byte limit is not tested
FlushNeeded_CountOnly(count, batch_bytes, batch_size, batch_max_bytes) ==
    count >= batch_size

\* slip: the count limit is tested with > instead of >=
FlushNeeded_CountPlusOne(count, batch_bytes, batch_size, batch_max_bytes) ==
    count > batch_size \/ batch_bytes >= batch_max_bytes

\* lines 452-455: the batch is processed right after the append that makes it
\* reach the count limit or the byte limit
FlushNeeded(count, batch_bytes, batch_size, batch_max_bytes) ==
    count >= batch_size \/ batch_bytes >= batch_max_bytes

\* slip: a last batch of one phrase is not processed
HasRemaining_MoreThanOne(phrases) == Len(phrases) > 1

\* line 471: if phrases_to_translate
HasRemaining(phrases) == Len(phrases) > 0

\* _save_progress (121-124): the document written to progress.json
SaveProgress(prog) == prog

\* _save_translations (140-158): an empty list is not written
SaveTranslations(rows, stored) == IF rows = <<>> THEN stored ELSE rows

\* slip: the final save is made only when a batch was processed
SavesAtEnd_OnlyAfterBatch(batches) == batches # <<>>

\* lines 483-489: the final save stands under no condition (changes_made is not read)
SavesAtEnd(batches) == TRUE

\* slip: the rows and the cache are saved at the end of the run only
SavesAfterBatch_Never(outcome) == FALSE

\* _process_batch 558-560: the save sits inside the outer try, after the parse and
\* repair handling; only a terminal error of the translation call skips it
SavesAfterBatch(outcome) == outcome # "call_failed"

\* slip: one attempt more than max_retries is allowed
RetryAgain_OneMore(attempt, max_retries) == attempt < max_retries

\* BaseDriver.translate_async 119-128: after a failed attempt, back off and retry
\* unless it was the last allowed attempt
RetryAgain(attempt, max_retries) == attempt < max_retries - 1

(***************************************************************************)
(* The driver calls (lib/llm/BaseDriver.py, lib/llm/gemini/GeminiDriver.py).*)
(* A call is followed from one await of the model (llm.ainvoke) to the     *)
(* next; the sleeps, the except block and the loop bookkeeping in between  *)
(* are part of the step and are written to the event log of the call.      *)
(***************************************************************************)
\* the calling conventions of BaseDriver: translate_async, translate_structured_async,
\* translate_function_async
BaseMethods == {"standard", "structured", "function"}

\* and GeminiDriver.translate_structured_async, which overrides the second
Methods == BaseMethods \cup {"gemini_structured"}

\* delay_seconds and max_retries: the values tried
DelayChoices == {1, 2}
DriverMaxRetriesChoices == 0..MaxDriverRetries

\* what the model hands back when ainvoke returns: content that json.loads accepts
\* (or a tool call), or text that it rejects
ContentKinds == {"json", "text"}

RECURSIVE Pow2(_)
Pow2(k) == IF k <= 0 THEN 1 ELSE 2 * Pow2(k - 1)

\* one entry of the event log of a call
Ev(e, what, secs) == [e |-> e, what |-> what, secs |-> secs]

\* slip: the loop runs once more than max_retries
InRange_Inclusive(retry, max_retries) == retry <= max_retries

\* for retry in range(max_retries)
InRange(retry, max_retries) == retry < max_retries

\* translate_function_async 423, GeminiDriver 373: if retry == max_retries - 1: raise
IsLastAttempt(retry, max_retries) == retry = max_retries - 1

\* translate_async and BaseDriver.translate_structured_async sleep the backoff in the
\* except block; the two others at the start of the next iteration
BackoffInExcept(method) == method \in {"standard", "structured"}

\* slip: the backoff does not grow
BackoffAfter_Constant(retry, delay_seconds) == delay_seconds

\* BaseDriver 121, 229: wait_time = delay_seconds * (2**retry)
BackoffAfter(retry, delay_seconds) == delay_seconds * Pow2(retry)

\* BaseDriver 278, GeminiDriver 242: wait_time = delay_seconds * (2 ** (retry - 1))
BackoffBefore(retry, delay_seconds) == delay_seconds * Pow2(retry - 1)

\* await asyncio.sleep(delay_seconds) after ainvoke returned: BaseDriver 110 and 185;
\* translate_function_async and GeminiDriver.translate_structured_async have none
PacesAfterSuccess(method) == method \in {"standard", "structured"}

\* BaseDriver 190-193: return json.loads(response.content) raises inside the try
ContentRaises(method, content) == method = "structured" /\ content = "text"

\* GeminiDriver 319-364: json.JSONDecodeError is caught where it is raised; the loop
\* goes on, and on the last iteration a fallback dict is returned
ContentRetried(method, content) == method = "gemini_structured" /\ content = "text"

\* the call is over
DriverStep(pc_, retry_, events_) == [pc |-> pc_, retry |-> retry_, events |-> events_]

\* the loop moves to its next iteration, or is exhausted and the raise after it is reached
NextIteration(method, retry_, max_retries, delay_seconds, events_) ==
    IF InRange(retry_ + 1, max_retries)
    THEN DriverStep("invoke", retry_ + 1,
                    IF BackoffInExcept(method) THEN events_
                    ELSE Append(events_, Ev("sleep", "backoff",
                                            BackoffBefore(retry_ + 1, delay_seconds))))
    ELSE DriverStep("raised", retry_, events_)

\* the except block of the loop
ExceptBlock(method, retry_, max_retries, delay_seconds, events_) ==
    LET caught == Append(events_, Ev("except", "", 0))
    IN  IF BackoffInExcept(method)
        THEN IF RetryAgain(retry_, max_retries)
             THEN NextIteration(method, retry_, max_retries, delay_seconds,
                                Append(caught, Ev("sleep", "backoff",
                                                  BackoffAfter(retry_, delay_seconds))))
             ELSE DriverStep("raised", retry_, caught)
        ELSE IF IsLastAttempt(retry_, max_retries)
             THEN DriverStep("raised", retry_, caught)
             ELSE NextIteration(method, retry_, max_retries, delay_seconds, caught)

\* what follows the return of ainvoke
AfterReturn(method, content, retry_, max_retries, delay_seconds, events_) ==
    LET paced == IF PacesAfterSuccess(method)
                 THEN Append(events_, Ev("sleep", "pacing", delay_seconds))
                 ELSE events_
    IN  IF ContentRaises(method, content)
        THEN ExceptBlock(method, retry_, max_retries, delay_seconds, paced)
        ELSE IF ContentRetried(method, content) /\ ~IsLastAttempt(retry_, max_retries)
        THEN NextIteration(method, retry_, max_retries, delay_seconds, paced)
        ELSE DriverStep("returned", retry_, paced)

\* slip: _process_batch is started as a task and translate goes on at once
Awaiting_Detached(return_to) == return_to

\* lines 456 and 472: await self._process_batch(...): translate stands in the call
\* of the batch until _process_batch returns
Awaiting(return_to) == "call"

(***************************************************************************)
(* format_prompt (lib/PromptManager.py 169-198).  A template is the        *)
(* sequence of its characters; kwargs is a function from the supplied      *)
(* names to their values.                                                  *)
(***************************************************************************)
\* the characters of the templates of the model: the two braces and two letters
TemplateChars == {"{", "}", "x", "y"}

\* the names a caller of the model may supply, each a single letter, and the value
NameChoices == {"x", "y"}

KwargsChoices == UNION { [S -> {"v"}] : S \in SUBSET NameChoices }

\* name in kwargs, for a name cut out of the template
Supplied(name, kwargs) == Len(name) = 1 /\ name[1] \in DOMAIN kwargs

\* the index of the first "}" after p, 0 when there is none
FirstClose(template, p) ==
    LET closes == { q \in (p + 1)..Len(template) : template[q] = "}" }
    IN  IF closes = {} THEN 0 ELSE CHOOSE q \in closes : \A r \in closes : q <= r

\* line 181: set(re.findall(r"\{([^}]+)\}", template)), scanning from p
RECURSIVE RequiredVars(_, _)
RequiredVars(template, p) ==
    IF p > Len(template) THEN {}
    ELSE LET q == FirstClose(template, p)
         IN  IF template[p] = "{" /\ q > p + 1
             THEN { SubSeq(template, p + 1, q - 1) } \cup RequiredVars(template, q + 1)
             ELSE RequiredVars(template, p + 1)

\* str.format: the index of the "}" that closes the field opened before q, counting
\* the braces nested in it; 0 when the template ends first
RECURSIVE FieldEnd(_, _, _)
FieldEnd(template, q, depth) ==
    IF q > Len(template) THEN 0
    ELSE IF template[q] = "{" THEN FieldEnd(template, q + 1, depth + 1)
    ELSE IF template[q] = "}"
    THEN IF depth = 1 THEN q ELSE FieldEnd(template, q + 1, depth - 1)
    ELSE FieldEnd(template, q + 1, depth)

Formatted(text) == [kind |-> "ok", text |-> text]

FormatError(kind) == [kind |-> kind, text |-> <<>>]

\* line 189: template.format(**kwargs), from p on, out being the text made so far
RECURSIVE Format(_, _, _, _)
Format(template, kwargs, p, out) ==
    IF p > Len(template) THEN Formatted(out)
    ELSE IF template[p] = "}"
    THEN IF p + 1 <= Len(template) /\ template[p + 1] = "}"
         THEN Format(template, kwargs, p + 2, Append(out, "}"))
         ELSE FormatError("ValueError")
    ELSE IF template[p] = "{"
    THEN IF p + 1 > Len(template) THEN FormatError("ValueError")
         ELSE IF template[p + 1] = "{"
         THEN Format(template, kwargs, p + 2, Append(out, "{"))
         ELSE LET q == FieldEnd(template, p + 1, 1)
                  name == SubSeq(template, p + 1, q - 1)
              IN  IF q = 0 THEN FormatError("ValueError")
                  ELSE IF \E k \in 1..Len(name) : name[k] = "{" THEN FormatError("ValueError")
                  ELSE IF name = <<>> THEN FormatError("IndexError")
                  ELSE IF ~Supplied(name, kwargs) THEN FormatError("KeyError")
                  ELSE Format(template, kwargs, q + 1,
                              IF kwargs[name[1]] = "" THEN out
                              ELSE Append(out, kwargs[name[1]]))
    ELSE Format(template, kwargs, p + 1, Append(out, template[p]))

\* slip: only the two named exceptions are caught
Caught_NoCatchAll(kind) == kind \in {"KeyError", "ValueError"}

\* lines 190-198: except KeyError, except ValueError, except Exception
Caught(kind) == kind \in {"KeyError", "ValueError", "IndexError"}

\* what a call gives: a returned text, or an exception that leaves the function
Returns(text) == [raised |-> FALSE, text |-> text]

Raises(kind) == [raised |-> TRUE, text |-> <<>>]

FormatPrompt(template, kwargs) ==
    LET required_vars == RequiredVars(template, 1)
        missing == { name \in required_vars : ~Supplied(name, kwargs) }
        formatted == Format(template, kwargs, 1, <<>>)
    IN  IF missing # {} THEN Returns(template)
        ELSE IF formatted.kind = "ok" THEN Returns(formatted.text)
        ELSE IF Caught(formatted.kind) THEN Returns(template)
        ELSE Raises(formatted.kind)

(***************************************************************************)
(* _create_batch_prompt (TranslationProject.py 196-249).  A template is a  *)
(* sequence of braces and of pieces of text without braces; the texts the  *)
(* builder makes stand as one piece each.                                  *)
(***************************************************************************)
Placeholder(name) == << "{", name, "}" >>

\* a template with the three required placeholders only
RequiredTemplate ==
    Placeholder("base_language") \o Placeholder("dst_language") \o Placeholder("phrases_json")

\* one with the two context placeholders as well
ContextTemplate ==
    RequiredTemplate \o Placeholder("context") \o Placeholder("phrase_contexts")

\* one that also names a placeholder the builder does not supply
UnknownPlaceholderTemplate == ContextTemplate \o Placeholder("glossary")

\* what load_prompt with strict validation, or default_prompt, may hand to the builder
PromptTemplateChoices == { RequiredTemplate, ContextTemplate, UnknownPlaceholderTemplate }

\* what _load_context returns: nothing, or the joined context texts
GlobalContextChoices == {"", "style guide"}

EmptyContexts == [p \in {} |-> ""]

\* slip: every phrase gets an entry, with or without context
HasContext_Always(context) == TRUE

\* line 208: if context
HasContext(context) == context # ""

\* lines 204-209: the loop over the phrases of the batch
RECURSIVE PhraseContexts(_, _, _, _, _)
PhraseContexts(phrases, translations, indices, n, phrase_contexts) ==
    IF n > Len(phrases) THEN phrase_contexts
    ELSE LET context == translations[indices[n]].context
         IN  PhraseContexts(phrases, translations, indices, n + 1,
                            IF HasContext(context)
                            THEN Put(phrase_contexts, phrases[n], context)
                            ELSE phrase_contexts)

\* the texts json.dumps and the f-strings make, each as one piece of the prompt
PhrasesJson(phrases) == IF phrases = <<>> THEN "[]" ELSE "[phrases]"

ContextsJson(phrase_contexts) ==
    IF phrase_contexts # EmptyContexts THEN "{phrase: context}" ELSE ""

ContextSection(global_context) ==
    IF global_context # "" THEN "Global Translation Context" ELSE ""

PhraseContextsSection(contexts_json) ==
    IF contexts_json # "" THEN "Phrase-specific contexts" ELSE ""

CreateBatchPrompt(phrases, translations, indices, prompt_template, global_context) ==
    LET phrase_contexts == PhraseContexts(phrases, translations, indices, 1, EmptyContexts)
        contexts_json == ContextsJson(phrase_contexts)
        kwargs == [base_language |-> "EN",
                   dst_language |-> "ES",
                   phrases_json |-> PhrasesJson(phrases),
                   context |-> ContextSection(global_context),
                   phrase_contexts |-> PhraseContextsSection(contexts_json)]
    IN  [phrase_contexts |-> phrase_contexts,
         prompt |-> FormatPrompt(prompt_template, kwargs).text]

(***************************************************************************)
(* PromptManager._validate_prompt (lib/PromptManager.py 26-51).            *)
(***************************************************************************)
\* the prompt kinds of the model; output_format has no required placeholders
PromptTypes == {"translation", "json_fix", "output_format"}

\* self._required_vars (lines 21-24)
RequiredVarsOf ==
    [prompt_type \in {"translation", "json_fix"} |->
        IF prompt_type = "translation"
        THEN {"base_language", "dst_language", "phrases_json"}
        ELSE {"invalid_json"}]

\* a translation template without {dst_language}, a template for json_fix, and
\* a text without placeholders
IncompleteTemplate == Placeholder("base_language") \o Placeholder("phrases_json")

JsonFixTemplate == Placeholder("invalid_json")

PlainTemplate == << "Fix this" >>

\* the texts of the prompt files of the model; <<>> is the empty text
FileTemplateChoices ==
    { <<>>, RequiredTemplate, IncompleteTemplate, JsonFixTemplate, PlainTemplate }

\* the tuple _validate_prompt returns; missing holds the names the message lists
Validation(is_valid, message, missing) ==
    [is_valid |-> is_valid, message |-> message, missing |-> missing]

ValidatePrompt(prompt_type, template, strict) ==
    IF template = <<>> THEN Validation(FALSE, "Empty prompt template", {})
    ELSE IF strict /\ prompt_type \in DOMAIN RequiredVarsOf
    THEN LET required == RequiredVarsOf[prompt_type]
             found_vars == RequiredVars(template, 1)
             missing == { v \in required : << v >> \notin found_vars }
         IN  IF missing # {}
             THEN Validation(FALSE, "Missing required variables", missing)
             ELSE Validation(TRUE, "", {})
    ELSE Validation(TRUE, "", {})

(***************************************************************************)
(* PromptManager.load_prompt, _load_default_prompt and clear_cache         *)
(* (lib/PromptManager.py 53-167, 200-210).  cache is self._cache, a prompt *)
(* file is File(text) or NoFile, and the empty template <<>> is the "" the *)
(* methods return when they have nothing to give.                          *)
(***************************************************************************)
\* the kinds of prompt the manager of the model is asked for
PromptKinds == {"translation", "json_fix"}

\* a prompt file: whether it is there, and its text
NoFile == [exists |-> FALSE, text |-> <<>>]

File(text) == [exists |-> TRUE, text |-> text]

NoFiles == [prompt_type \in PromptKinds |-> [flat |-> NoFile, nested |-> NoFile]]

EmptyCache == [prompt_type \in {} |-> <<>>]

\* a file that holds white space only
BlankTemplate == << " " >>

\* str.strip() of a file's text
RECURSIVE LStrip(_)
LStrip(t) == IF t # <<>> /\ t[1] = " " THEN LStrip(Tail(t)) ELSE t

RECURSIVE RStrip(_)
RStrip(t) == IF t # <<>> /\ t[Len(t)] = " " THEN RStrip(SubSeq(t, 1, Len(t) - 1)) ELSE t

StripTemplate(t) == RStrip(LStrip(t))

\* what a load returns, and the cache it leaves
Loaded(cache, prompt) == [cache |-> cache, prompt |-> prompt]

\* lines 87-88 and 160-161: if use_cache: self._cache[prompt_type] = prompt
Cached(cache, prompt_type, prompt, use_cache) ==
    IF use_cache THEN Put(cache, prompt_type, prompt) ELSE cache

\* lines 78-86 and 151-159: the template is turned down when it was validated, found
\* invalid, and the validation is strict
TurnedDown(prompt_type, prompt, validate, strict_validation) ==
    /\ validate
    /\ ~ValidatePrompt(prompt_type, prompt, strict_validation).is_valid
    /\ strict_validation

\* _load_default_prompt, lines 139-167: the loop over prompt_paths
RECURSIVE LoadDefaultFrom(_, _, _, _, _, _)
LoadDefaultFrom(paths, cache, prompt_type, use_cache, validate, strict_validation) ==
    IF paths = <<>> THEN Loaded(cache, <<>>)
    ELSE LET path == paths[1]
             prompt == StripTemplate(path.text)
         IN  IF /\ path.exists
                /\ prompt # <<>>
                /\ ~TurnedDown(prompt_type, prompt, validate, strict_validation)
             THEN Loaded(Cached(cache, prompt_type, prompt, use_cache), prompt)
             ELSE LoadDefaultFrom(Tail(paths), cache, prompt_type, use_cache, validate,
                                  strict_validation)

LoadDefaultPrompt(files, cache, prompt_type, use_cache, validate, strict_validation) ==
    LoadDefaultFrom(<< files[prompt_type].flat, files[prompt_type].nested >>, cache,
                    prompt_type, use_cache, validate, strict_validation)

\* the argument custom_prompt_path: None, or the path of a file that is there or not
NoPath == [given |-> FALSE, file |-> NoFile]

Path(file) == [given |-> TRUE, file |-> file]

\* line 73: if use_cache and prompt_type in self._cache
UsesCache(cache, prompt_type, use_cache) == use_cache /\ prompt_type \in DOMAIN cache

LoadPrompt(files, cache, prompt_type, custom_prompt_path, use_cache, validate, strict_validation) ==
    IF UsesCache(cache, prompt_type, use_cache)
    THEN Loaded(cache, cache[prompt_type])
    ELSE IF custom_prompt_path.given
    THEN LET prompt == StripTemplate(custom_prompt_path.file.text)
         IN  IF ~custom_prompt_path.file.exists \/ prompt = <<>>
             THEN Loaded(cache, <<>>)
             ELSE IF TurnedDown(prompt_type, prompt, validate, strict_validation)
             THEN LoadDefaultPrompt(files, cache, prompt_type, use_cache, validate,
                                    strict_validation)
             ELSE Loaded(Cached(cache, prompt_type, prompt, use_cache), prompt)
    ELSE LoadDefaultPrompt(files, cache, prompt_type, use_cache, validate, strict_validation)

\* clear_cache(prompt_type): prompt_type "" stands for None
ClearCache(cache, prompt_type) ==
    IF prompt_type # ""
    THEN [t \in DOMAIN cache \ {prompt_type} |-> cache[t]]
    ELSE EmptyCache


(***************************************************************************)
(* TranslationTool.translate_standard (lib/TranslationTool.py 371-426),    *)
(* with handle_response_format (297-369) and update_translations_from_list *)
(* (195-232).  The lists are changed in place: what was written before an  *)
(* exception stays written.                                                *)
(***************************************************************************)
\* translation.strip() of the strings of the model
Strip(x) == IF x = " " THEN "" ELSE x

\* the state of one call: update_count, the rows, the cache, and whether an
\* exception left the loop
Updating(update_count, translations, progress, raised) ==
    [update_count |-> update_count, translations |-> translations, progress |-> progress,
     raised |-> raised]

\* lines 219-230: the loop over translations_list, from element n on
RECURSIVE UpdateTranslationsFromList(_, _, _, _, _)
UpdateTranslationsFromList(translations_list, phrases, indices, n, u) ==
    IF n > Len(translations_list) THEN u
    ELSE LET translation == translations_list[n]
         IN  IF n > Len(phrases)
             THEN UpdateTranslationsFromList(translations_list, phrases, indices, n + 1, u)
             ELSE IF translation.t # "str"
             THEN [u EXCEPT !.raised = TRUE]
             ELSE IF Strip(translation.s) # ""
             THEN UpdateTranslationsFromList(
                      translations_list, phrases, indices, n + 1,
                      Updating(u.update_count + 1,
                               [u.translations EXCEPT ![indices[n]].dst = translation.s],
                               Put(u.progress, phrases[n], translation.s),
                               FALSE))
             ELSE UpdateTranslationsFromList(translations_list, phrases, indices, n + 1, u)

\* handle_response_format on the text of a reply
HandleResponseFormat(response, phrases, indices, translations, progress) ==
    LET json_str == ExtractJson(response)
        parsed_response == json_str.value
        unchanged == Updating(0, translations, progress, FALSE)
    IN  IF ~json_str.valid THEN unchanged
        ELSE IF parsed_response.t = "list"
        THEN UpdateTranslationsFromList(parsed_response.items, phrases, indices, 1, unchanged)
        ELSE IF /\ parsed_response.t = "dict"
                /\ HasKey(parsed_response, "translations")
                /\ Get(parsed_response, "translations").t = "list"
        THEN UpdateTranslationsFromList(Get(parsed_response, "translations").items,
                                        phrases, indices, 1, unchanged)
        ELSE unchanged

\* lines 412-426: return self.handle_response_format(...) / except Exception: return 0
ReturnedCount(u) == IF u.raised THEN 0 ELSE u.update_count

\* translate_standard: call_failed stands for driver.translate_async raising
TranslateStandard(call_failed, response, phrases, indices, translations, progress) ==
    IF call_failed
    THEN [count |-> 0, translations |-> translations, progress |-> progress]
    ELSE LET u == HandleResponseFormat(response, phrases, indices, translations, progress)
         IN  [count |-> ReturnedCount(u), translations |-> u.translations,
              progress |-> u.progress]

(***************************************************************************)
(* get_best_translation_method (lib/llm/BaseDriver.py 431-466).            *)
(***************************************************************************)
\* the requested_method values and the preferred_method values of the drivers
RequestedChoices == {"auto", "standard", "structured", "function"}

PreferredChoices == {"standard", "structured", "function"}

\* slip: a specific request is honoured without a look at the flags
HonoursRequest_Unchecked(requested_method, supports_structured_output, supports_function_calling) ==
    requested_method \in {"function", "structured", "standard"}

\* lines 444-449: the if / elif / elif under requested_method != "auto"
HonoursRequest(requested_method, supports_structured_output, supports_function_calling) ==
    \/ requested_method = "function" /\ supports_function_calling
    \/ requested_method = "structured" /\ supports_structured_output
    \/ requested_method = "standard"

GetBestTranslationMethod(requested_method, supports_structured_output, supports_function_calling, preferred_method) ==
    IF /\ requested_method # "auto"
       /\ HonoursRequest(requested_method, supports_structured_output,
                         supports_function_calling)
    THEN requested_method
    ELSE IF preferred_method = "function" /\ supports_function_calling
    THEN "function"
    ELSE IF preferred_method = "structured" /\ supports_structured_output
    THEN "structured"
    ELSE "standard"

(***************************************************************************)
(* The drivers of the registry (lib/llm/__init__.py 11-46) as their        *)
(* constructors leave them: the attributes that get_best_translation_method *)
(* reads, for those that were assigned.                                     *)
(***************************************************************************)
CapabilityFields == {"supports_structured_output", "supports_function_calling", "preferred_method"}

\* BaseDriver.__init__ 31-35, followed by the assignments of the subclass
Capabilities(structured, function, preferred) ==
    [supports_structured_output |-> structured, supports_function_calling |-> function,
     preferred_method |-> preferred]

\* GeminiDriver.__init__ 41-51: "2.0" in model, for the model names of the registry
Has20(model) ==
    model \in {"gemini-2.0-flash", "google/gemini-2.0-flash-lite-preview-02-05:free"}

GeminiDriver(model) ==
    IF Has20(model) THEN Capabilities(TRUE, FALSE, "structured")
    ELSE Capabilities(FALSE, FALSE, "standard")

\* OpenAIDriver.__init__ 16, 28-32
OpenAIDriver(model) == Capabilities(TRUE, TRUE, "function")

\* GrokDriver.__init__ 14-31: no call of super().__init__, and api_key, llm and model
\* are all it assigns
GrokDriver(model) == [model |-> model]

\* get_driver(model): drivers[model]()
GetDriver(model) ==
    CASE model = "gemini" -> GeminiDriver("gemini-2.0-flash")
      [] model = "grok" -> GrokDriver("grok-2-1212")
      [] model = "openai" -> OpenAIDriver("gpt-4o-mini")
      [] model = "openrouter-gemini-2.0-flash-lite-preview-02-05" ->
             OpenAIDriver("google/gemini-2.0-flash-lite-preview-02-05:free")
      [] model = "openrouter-grok-2-1212" -> OpenAIDriver("x-ai/grok-2-1212")
      [] model = "openrouter-grok-3-beta" -> OpenAIDriver("x-ai/grok-beta")
      [] OTHER -> OpenAIDriver("deepseek/deepseek-r1:free")

\* get_best_translation_method on a driver object: the attributes are read in the
\* order of the code, and reading one that was never assigned raises AttributeError
MethodOfDriver(self, requested_method) ==
    LET has(name) == name \in DOMAIN self
        preferred ==
            IF ~has("preferred_method") THEN "AttributeError"
            ELSE IF self.preferred_method = "function"
            THEN IF ~has("supports_function_calling") THEN "AttributeError"
                 ELSE IF self.supports_function_calling THEN "function"
                 ELSE "standard"
            ELSE IF self.preferred_method = "structured"
            THEN IF ~has("supports_structured_output") THEN "AttributeError"
                 ELSE IF self.supports_structured_output THEN "structured"
                 ELSE "standard"
            ELSE "standard"
    IN  IF requested_method = "function"
        THEN IF ~has("supports_function_calling") THEN "AttributeError"
             ELSE IF self.supports_function_calling THEN "function"
             ELSE preferred
        ELSE IF requested_method = "structured"
        THEN IF ~has("supports_structured_output") THEN "AttributeError"
             ELSE IF self.supports_structured_output THEN "structured"
             ELSE preferred
        ELSE IF requested_method = "standard" THEN "standard"
        ELSE preferred

\* slip: a name that is not registered falls back to a default driver
ModelRegistered_Fallback(model) == TRUE

\* get_driver (lib/llm/__init__.py 42-46): if model in drivers ... else raise ValueError
ModelRegistered(model) == model \in RegisteredModels

\* __init__ 51-52: if self.config and self.dst_language not in self.config["languages"]
LanguageKnown(dst_language) == dst_language \in Languages

(***************************************************************************)
(* State.                                                                  *)
(***************************************************************************)
VARIABLES
    stored_translations,   \* the source CSV file
    stored_progress,       \* progress.json
    args,                  \* the arguments of translate
    translations,          \* translate: the loaded rows
    progress,              \* translate: the loaded progress cache
    pc,                    \* where translate stands
    after,                 \* where _process_batch returns to
    i,                     \* the row the loop visits next
    phrases_to_translate,  \* the batch being filled or processed
    phrase_indices,        \* the rows of its phrases
    current_batch_bytes,   \* its accumulated byte size
    retry,                 \* the attempt counter of the driver call in flight
    response,              \* _process_batch: the reply being repaired
    run,                   \* history: number of translate invocations started
    at_start,              \* history: rows and cache as this invocation loaded them
    dispatched,            \* history: the batches handed to _process_batch
    pending,               \* history: rows found untranslated and uncached at their visit
    hits,                  \* history: rows found empty with a cached phrase at their visit
    merged,                \* history: what the batches of this invocation merged
    prev_abandoned,        \* history: rows of the batches the previous invocation abandoned
    d_method,              \* driver call: the calling convention
    d_delay_seconds,       \* driver call: delay_seconds
    d_max_retries,         \* driver call: max_retries
    d_pc,                  \* driver call: where it stands
    d_retry,               \* driver call: the loop variable retry
    d_events,              \* history: the event log of the driver call
    f_call,                \* one call of a function: the function and its arguments
    f_result,              \* one call of a function: what it returned or raised
    pm_files,              \* prompt manager: the default prompt files of each kind
    pm_cache,              \* prompt manager: self._cache
    pm_call,               \* prompt manager: the last call and its arguments
    pm_result              \* prompt manager: what the last call returned

vars ==
    << stored_translations, stored_progress, args, translations, progress, pc, after, i,
       phrases_to_translate, phrase_indices, current_batch_bytes, retry, response,
       run, at_start, dispatched, pending, hits, merged, prev_abandoned,
       d_method, d_delay_seconds, d_max_retries, d_pc, d_retry, d_events,
       f_call, f_result, pm_files, pm_cache, pm_call, pm_result >>

functions == << f_call, f_result >>

prompts == << pm_files, pm_cache, pm_call, pm_result >>

driver == << d_method, d_delay_seconds, d_max_retries, d_pc, d_retry, d_events >>

storage == << stored_translations, stored_progress >>
memory == << translations, progress >>
batch == << phrases_to_translate, phrase_indices, current_batch_bytes >>
visits == << pending, hits >>

Snapshot(rows, prog) == [translations |-> rows, progress |-> prog]

\* history: how the repair of a batch went.  how is "none" (no repair call),
\* "returned" (the repair call answered) or "failed" (it failed terminally), fixed is
\* what _fix_invalid_json returned, parses counts the calls of _parse_batch_response
Trace(how, fixed, parses) == [how |-> how, fixed |-> fixed, parses |-> parses]

Batch(phrases, indices) ==
    [phrases |-> phrases, indices |-> indices, outcome |-> "in_flight", reply |-> NoResponse,
     repair |-> Trace("none", InvalidPayload, 0)]

Abandoned(b) == b.outcome \in {"call_failed", "unparseable"}

Indices(b) == { b.indices[n] : n \in 1..Len(b.indices) }

AbandonedRows(batches) ==
    UNION { Indices(batches[n]) : n \in { m \in 1..Len(batches) : Abandoned(batches[m]) } }

\* no driver call is followed step by step
DriverUnused ==
    /\ d_method = "standard"
    /\ d_delay_seconds = 1
    /\ d_max_retries = 0
    /\ d_pc = "unused"
    /\ d_retry = 0
    /\ d_events = <<>>

\* no single function call is followed
NoCall == [fn |-> "none"]

NoResult == [returned |-> FALSE]

FunctionsUnused ==
    /\ f_call = NoCall
    /\ f_result = NoResult

\* no prompt manager call is followed
PromptsUnused ==
    /\ pm_files = NoFiles
    /\ pm_cache = EmptyCache
    /\ pm_call = NoCall
    /\ pm_result = NoResult

ProjectInit ==
    /\ stored_translations \in SeqsUpTo(RowChoices, MaxRows) \cup RepeatedFiles
    /\ stored_progress \in ProgressChoices
    /\ args \in [batch_size : BatchSizeChoices,
                 batch_max_bytes : BatchMaxBytesChoices,
                 max_retries : MaxRetriesChoices,
                 model : ModelChoices,
                 dst_language : DstLanguageChoices]
    /\ translations = <<>>
    /\ progress = EmptyProgress
    /\ pc = "new"
    /\ after = "loop"
    /\ i = 1
    /\ phrases_to_translate = <<>>
    /\ phrase_indices = <<>>
    /\ current_batch_bytes = 0
    /\ retry = 0
    /\ response = NoResponse
    /\ run = 0
    /\ at_start = Snapshot(<<>>, EmptyProgress)
    /\ dispatched = <<>>
    /\ pending = <<>>
    /\ hits = {}
    /\ merged = {}
    /\ prev_abandoned = {}

Init == ProjectInit /\ DriverUnused /\ FunctionsUnused /\ PromptsUnused

(***************************************************************************)
(* TranslationProject.create / __init__ (26-96): the project object is     *)
(* made, unless the destination language is not one of the project.  The   *)
(* progress file it writes when there is none holds {}, which is what      *)
(* _load_progress returns for a missing file: the stored cache is the same.*)
(***************************************************************************)
Create ==
    /\ pc = "new"
    /\ pc' = IF LanguageKnown(args.dst_language) THEN "idle" ELSE "config_error"
    /\ UNCHANGED << storage, args, memory, after, i, batch, retry, response, run, at_start,
                    dispatched, visits, merged, prev_abandoned, driver, functions, prompts >>

(***************************************************************************)
(* translate, lines 405-418: load rows and cache, get the driver; get_driver*)
(* raises ValueError for a name that is not registered.                    *)
(***************************************************************************)
TranslateBegin ==
    /\ pc \in {"idle", "done"}
    /\ run < MaxRuns
    /\ translations' = stored_translations
    /\ progress' = stored_progress
    /\ pc' = IF ModelRegistered(args.model) THEN "loop" ELSE "config_error"
    /\ after' = "loop"
    /\ i' = 1
    /\ phrases_to_translate' = <<>>
    /\ phrase_indices' = <<>>
    /\ current_batch_bytes' = 0
    /\ retry' = 0
    /\ response' = NoResponse
    /\ run' = run + 1
    /\ at_start' = Snapshot(stored_translations, stored_progress)
    /\ dispatched' = <<>>
    /\ pending' = <<>>
    /\ hits' = {}
    /\ merged' = {}
    /\ prev_abandoned' = AbandonedRows(dispatched)
    /\ UNCHANGED << storage, args, driver, functions, prompts >>

(***************************************************************************)
(* translate, lines 420-468: one iteration of the loop over the rows.      *)
(***************************************************************************)
VisitRow ==
    /\ pc = "loop"
    /\ i <= Len(translations)
    /\ LET row == translations[i]
           source_phrase == row.base
           untouched == source_phrase # "" /\ row.dst = ""
           phrases == Append(phrases_to_translate, source_phrase)
           indices == Append(phrase_indices, i)
           batch_bytes == current_batch_bytes + Utf8Len(source_phrase)
       IN  /\ i' = i + 1
           /\ pending' = IF untouched /\ source_phrase \notin DOMAIN progress
                         THEN Append(pending, i) ELSE pending
           /\ hits' = IF untouched /\ source_phrase \in DOMAIN progress
                      THEN hits \cup { [row |-> i, value |-> progress[source_phrase]] }
                      ELSE hits
           /\ IF source_phrase = ""
              THEN UNCHANGED << memory, batch, pc, after, retry, dispatched >>
              ELSE IF IsTranslated(row)
              THEN /\ progress' = IF NeedsBackfill(source_phrase, progress)
                                  THEN Put(progress, source_phrase, row.dst)
                                  ELSE progress
                   /\ UNCHANGED << translations, batch, pc, after, retry, dispatched >>
              ELSE IF IsCacheHit(row, progress)
              THEN /\ translations' = SetDst(translations, i, progress[source_phrase])
                   /\ UNCHANGED << progress, batch, pc, after, retry, dispatched >>
              ELSE /\ phrases_to_translate' = phrases
                   /\ phrase_indices' = indices
                   /\ current_batch_bytes' = batch_bytes
                   /\ IF FlushNeeded(Len(phrases), batch_bytes,
                                     args.batch_size, args.batch_max_bytes)
                      THEN /\ pc' = Awaiting("loop")
                           /\ after' = "loop"
                           /\ retry' = 0
                           /\ dispatched' = Append(dispatched, Batch(phrases, indices))
                      ELSE UNCHANGED << pc, after, retry, dispatched >>
                   /\ UNCHANGED memory
    /\ UNCHANGED << storage, args, response, run, at_start, merged, prev_abandoned, driver, functions, prompts >>

(***************************************************************************)
(* translate, lines 470-481: the rows are exhausted.                       *)
(***************************************************************************)
LoopEnd ==
    /\ pc = "loop"
    /\ i > Len(translations)
    /\ IF HasRemaining(phrases_to_translate)
       THEN /\ pc' = Awaiting("final")
            /\ after' = "final"
            /\ retry' = 0
            /\ dispatched' = Append(dispatched, Batch(phrases_to_translate, phrase_indices))
       ELSE /\ pc' = "final"
            /\ UNCHANGED << after, retry, dispatched >>
    /\ UNCHANGED << storage, args, memory, i, batch, response, run, at_start,
                    visits, merged, prev_abandoned, driver, functions, prompts >>

(***************************************************************************)
(* _process_batch (TranslationProject.py 491-567).                         *)
(***************************************************************************)
\* slip: the handler falls back to the source text for the rows of the batch
AbandonBatch_KeepsSource(phrases, indices, rows, prog) ==
    Snapshot([n \in 1..Len(rows) |->
                 IF \E m \in 1..Len(indices) : indices[m] = n
                 THEN [rows[n] EXCEPT !.dst = rows[n].base]
                 ELSE rows[n]],
             prog)

\* the except blocks 554-556 and 565-567 only print: the batch is skipped
AbandonBatch(phrases, indices, rows, prog) == Snapshot(rows, prog)

\* history: the cells and cache entries a merge set
Merges(rows, prog, new) ==
    { [row |-> n, phrase |-> "", value |-> new.translations[n].dst] :
          n \in { m \in 1..Len(rows) : new.translations[m] # rows[m] } }
    \cup
    { [row |-> 0, phrase |-> p, value |-> new.progress[p]] :
          p \in { q \in DOMAIN new.progress : q \notin DOMAIN prog \/ new.progress[q] # prog[q] } }

\* slip: the error of a batch that was given up is raised to the caller of translate
ReturnTo_Raises(outcome, return_to) ==
    IF outcome \in {"call_failed", "unparseable"} THEN "raised" ELSE return_to

\* slip: a reply that is still unparseable after the repair is repaired again
ReturnTo_RepairAgain(outcome, return_to) ==
    IF outcome = "unparseable" THEN "fix" ELSE return_to

\* slip: a batch whose call failed terminally is sent again
ReturnTo_Redispatch(outcome, return_to) ==
    IF outcome = "call_failed" THEN "call" ELSE return_to

\* the except blocks of _process_batch (554-556, 565-567) print and fall through:
\* whatever the outcome, _process_batch returns None to the await it was called from
ReturnTo(outcome, return_to) == return_to

\* _process_batch returns: rows and cache as the batch leaves them, the save of
\* lines 558-560, and back in translate the reset of lines 465-467
Finish(outcome, reply, new, trace) ==
    /\ translations' = new.translations
    /\ progress' = new.progress
    /\ IF SavesAfterBatch(outcome)
       THEN /\ stored_progress' = SaveProgress(new.progress)
            /\ stored_translations' = SaveTranslations(new.translations, stored_translations)
       ELSE UNCHANGED storage
    /\ dispatched' = [dispatched EXCEPT ![Len(dispatched)].outcome = outcome,
                                        ![Len(dispatched)].reply = reply,
                                        ![Len(dispatched)].repair = trace]
    /\ merged' = merged \cup Merges(translations, progress, new)
    /\ phrases_to_translate' = <<>>
    /\ phrase_indices' = <<>>
    /\ current_batch_bytes' = 0
    /\ retry' = 0
    /\ response' = NoResponse
    /\ pc' = ReturnTo(outcome, after)

\* driver.translate_async(prompt_text, delay_seconds, max_retries): an attempt fails
TranslationCallFails ==
    /\ pc = "call"
    /\ IF RetryAgain(retry, args.max_retries)
       THEN /\ retry' = retry + 1
            /\ UNCHANGED << storage, memory, pc, batch, response, dispatched, merged >>
       ELSE Finish("call_failed", NoResponse,
                   AbandonBatch(phrases_to_translate, phrase_indices, translations, progress),
                   Trace("none", InvalidPayload, 0))
    /\ UNCHANGED << args, after, i, run, at_start, visits, prev_abandoned, driver, functions, prompts >>

\* an attempt returns a reply: lines 516-523, or the start of the repair (525-530)
TranslationCallReturns ==
    /\ pc = "call"
    /\ \E kind \in ReplyKinds :
          LET resp == Reply(kind, phrases_to_translate)
              r == ParseBatchResponse(resp, phrases_to_translate)
          IN  IF r.ok
              THEN Finish("merged", resp,
                          UpdateTranslationsFromBatch(r.translations, phrases_to_translate,
                                                      phrase_indices, translations, progress),
                          Trace("none", InvalidPayload, 1))
              ELSE /\ pc' = "fix"
                   /\ response' = resp
                   /\ retry' = 0
                   /\ dispatched' = [dispatched EXCEPT
                                         ![Len(dispatched)].reply = resp,
                                         ![Len(dispatched)].repair = Trace("none", InvalidPayload, 1)]
                   /\ UNCHANGED << storage, memory, batch, merged >>
    /\ UNCHANGED << args, after, i, run, at_start, visits, prev_abandoned, driver, functions, prompts >>

\* slip: a repair call that failed hands back an empty fragment
FixFailed_Empty(invalid_json) == EmptyPayload

\* _fix_invalid_json 287-289: except Exception: return invalid_json
FixFailed(invalid_json) == invalid_json

\* lines 532-556: the second parse, on the reply with the repaired fragment put in
SecondParse(how, fixed_json_str) ==
    LET fixed_response == ReplaceJson(response, ExtractJson(response), fixed_json_str)
        r == ParseBatchResponse(fixed_response, phrases_to_translate)
        trace == Trace(how, fixed_json_str, dispatched[Len(dispatched)].repair.parses + 1)
    IN  IF r.ok
        THEN Finish("repaired", response,
                    UpdateTranslationsFromBatch(r.translations, phrases_to_translate,
                                                phrase_indices, translations, progress),
                    trace)
        ELSE Finish("unparseable", response,
                    AbandonBatch(phrases_to_translate, phrase_indices, translations, progress),
                    trace)

\* _fix_invalid_json (251-289): an attempt of the repair call fails; after the last
\* one the except block returns the invalid fragment as it came
FixCallFails ==
    /\ pc = "fix"
    /\ IF RetryAgain(retry, FixMaxRetries)
       THEN /\ retry' = retry + 1
            /\ UNCHANGED << storage, memory, pc, batch, response, dispatched, merged >>
       ELSE SecondParse("failed", FixFailed(ExtractJson(response)))
    /\ UNCHANGED << args, after, i, run, at_start, visits, prev_abandoned, driver, functions, prompts >>

\* the repair call returns: its JSON is extracted and parsed in place of the fragment
FixCallReturns ==
    /\ pc = "fix"
    /\ \E kind \in FixReplyKinds :
          SecondParse("returned", ExtractJson(Reply(kind, phrases_to_translate)))
    /\ UNCHANGED << args, after, i, run, at_start, visits, prev_abandoned, driver, functions, prompts >>

(***************************************************************************)
(* translate, lines 483-489: the final save.                               *)
(***************************************************************************)
FinalSave ==
    /\ pc = "final"
    /\ IF SavesAtEnd(dispatched)
       THEN /\ stored_progress' = SaveProgress(progress)
            /\ stored_translations' = SaveTranslations(translations, stored_translations)
       ELSE UNCHANGED storage
    /\ pc' = "done"
    /\ UNCHANGED << args, memory, after, i, batch, retry, response, run, at_start,
                    dispatched, visits, merged, prev_abandoned, driver, functions, prompts >>

Next ==
    \/ Create
    \/ TranslateBegin
    \/ VisitRow
    \/ LoopEnd
    \/ TranslationCallFails
    \/ TranslationCallReturns
    \/ FixCallFails
    \/ FixCallReturns
    \/ FinalSave

Spec == Init /\ [][Next]_vars

(***************************************************************************)
(* One driver call, followed attempt by attempt.                           *)
(***************************************************************************)
project ==
    << stored_translations, stored_progress, args, translations, progress, pc, after, i,
       phrases_to_translate, phrase_indices, current_batch_bytes, retry, response,
       run, at_start, dispatched, pending, hits, merged, prev_abandoned >>

DriverInit ==
    /\ ProjectInit
    /\ stored_translations = <<>>
    /\ stored_progress = EmptyProgress
    /\ args = CHOOSE a \in [batch_size : BatchSizeChoices,
                              batch_max_bytes : BatchMaxBytesChoices,
                              max_retries : MaxRetriesChoices,
                              model : ModelChoices,
                              dst_language : DstLanguageChoices] : TRUE
    /\ d_method \in Methods
    /\ d_delay_seconds \in DelayChoices
    /\ d_max_retries \in DriverMaxRetriesChoices
    /\ d_pc = "ready"
    /\ d_retry = 0
    /\ d_events = <<>>
    /\ FunctionsUnused
    /\ PromptsUnused

Becomes(step) ==
    /\ d_pc' = step.pc
    /\ d_retry' = step.retry
    /\ d_events' = step.events
    /\ UNCHANGED << project, d_method, d_delay_seconds, d_max_retries, functions, prompts >>

\* the call is made: the loop is entered, or skipped when range(max_retries) is empty
DriverCall ==
    /\ d_pc = "ready"
    /\ Becomes(IF InRange(0, d_max_retries)
               THEN DriverStep("invoke", 0, d_events)
               ELSE DriverStep("raised", 0, d_events))

\* await self.llm.ainvoke(...) raises
InvokeRaises ==
    /\ d_pc = "invoke"
    /\ Becomes(ExceptBlock(d_method, d_retry, d_max_retries, d_delay_seconds,
                           Append(d_events, Ev("invoke", "error", 0))))

\* await self.llm.ainvoke(...) returns
InvokeReturns ==
    /\ d_pc = "invoke"
    /\ \E content \in ContentKinds :
          Becomes(AfterReturn(d_method, content, d_retry, d_max_retries, d_delay_seconds,
                              Append(d_events, Ev("invoke", content, 0))))

DriverNext ==
    \/ DriverCall
    \/ InvokeRaises
    \/ InvokeReturns

DriverSpec == DriverInit /\ [][DriverNext]_vars


(***************************************************************************)
(* Helpers of the properties.                                              *)
(***************************************************************************)
RECURSIVE SumBytes(_)
SumBytes(phrases) ==
    IF phrases = <<>> THEN 0
    ELSE Utf8Len(phrases[1]) + SumBytes(Tail(phrases))

AllButLast(q) == SubSeq(q, 1, Len(q) - 1)

\* the row indices of the batches, in dispatch order
RECURSIVE FlatIndices(_)
FlatIndices(batches) ==
    IF batches = <<>> THEN <<>>
    ELSE batches[1].indices \o FlatIndices(Tail(batches))

DispatchedRows == UNION { Indices(dispatched[n]) : n \in 1..Len(dispatched) }

InCall == pc \in {"call", "fix"}

Oversized(phrase) == Utf8Len(phrase) > args.batch_max_bytes

\* the reply is a JSON object whose "translations" array holds n strings
IsTranslationsObject(reply, n) ==
    /\ reply.payload.valid
    /\ HasKey(reply.payload.value, "translations")
    /\ Get(reply.payload.value, "translations").t = "list"
    /\ Len(Get(reply.payload.value, "translations").items) = n
    /\ \A m \in 1..n : Get(reply.payload.value, "translations").items[m].t = "str"

TranslationsElement(reply, m) == Get(reply.payload.value, "translations").items[m].s

(***************************************************************************)
(* C1.  End to end: rows with empty destination cells, an empty cache, one *)
(* batch, and a reply {"translations": [...]} with one string per phrase:  *)
(* when translate is done every row of the batch holds the element at its  *)
(* position and the cache maps its phrase to that element.                 *)
(***************************************************************************)
C1_EndToEnd ==
    ( /\ pc = "done"
      /\ \A n \in 1..Len(at_start.translations) : at_start.translations[n].dst = ""
      /\ at_start.progress = EmptyProgress
      /\ Len(dispatched) = 1
      /\ IsTranslationsObject(dispatched[1].reply, Len(dispatched[1].phrases)) )
    => \A n \in 1..Len(dispatched[1].phrases) :
           LET phrase == dispatched[1].phrases[n]
               element == TranslationsElement(dispatched[1].reply, n)
           IN  /\ translations[dispatched[1].indices[n]].dst = element
               /\ phrase \in DOMAIN progress
               /\ progress[phrase] = element

(***************************************************************************)
(* C2.  Save on every batch: while a model call is in flight, the stored   *)
(* rows and the stored cache hold every cell and every cache entry that    *)
(* the earlier batches of this invocation merged.                          *)
(***************************************************************************)
C2_SavedBeforeNextCall ==
    InCall =>
        \A m \in merged :
            /\ m.row > 0 => stored_translations[m.row].dst = m.value
            /\ m.row = 0 => /\ m.phrase \in DOMAIN stored_progress
                            /\ stored_progress[m.phrase] = m.value

\* a call starts after an earlier batch of the same invocation merged a result
C2_Witness == pc = "call" /\ retry = 0 /\ merged # {} /\ Len(dispatched) = 2

(***************************************************************************)
(* C3.  Cache hit: a row visited with an empty destination cell and a      *)
(* cached base phrase holds the cached value from then on and is in no     *)
(* batch, whatever its context cell is.                                    *)
(***************************************************************************)
C3_CacheHit ==
    \A h \in hits :
        /\ translations[h.row].dst = h.value
        /\ h.row \notin DispatchedRows
        /\ \A n \in 1..Len(phrase_indices) : phrase_indices[n] # h.row

\* a row with a context of its own was a cache hit, in a run that also dispatched
C3_Witness ==
    /\ pc = "done"
    /\ \E h \in hits : translations[h.row].context # "" /\ translations[h.row].dst = h.value
    /\ dispatched # <<>>

(***************************************************************************)
(* C4.  Batch partition: the batches, concatenated in dispatch order, are  *)
(* the rows that were found with a base phrase, untranslated and uncached  *)
(* at their visit, in row order; no batch is empty; and when the rows are  *)
(* exhausted the last, under-full batch has been dispatched too.           *)
(***************************************************************************)
C4_Partition ==
    /\ \A n \in 1..Len(dispatched) :
           /\ Len(dispatched[n].indices) > 0
           /\ Len(dispatched[n].phrases) = Len(dispatched[n].indices)
           /\ \A m \in 1..Len(dispatched[n].indices) :
                  dispatched[n].phrases[m] = translations[dispatched[n].indices[m]].base
    /\ pc \in {"loop", "final", "done"} =>
           FlatIndices(dispatched) \o phrase_indices = pending
    /\ InCall => FlatIndices(dispatched) = pending
    /\ pc \in {"final", "done"} => FlatIndices(dispatched) = pending

\* a batch was closed by a limit and the rows ended with an under-full batch
C4_Witness ==
    /\ pc = "done"
    /\ Len(dispatched) = 2
    /\ Len(dispatched[2].phrases) < args.batch_size
    /\ SumBytes(dispatched[2].phrases) < args.batch_max_bytes

C6_CountBound ==
    /\ \A n \in 1..Len(dispatched) : Len(dispatched[n].phrases) <= args.batch_size
    /\ Len(phrases_to_translate) <= args.batch_size

\* a batch closed by the count limit, with more than one phrase
C6_Witness ==
    \E n \in 1..Len(dispatched) :
        /\ Len(dispatched[n].phrases) = args.batch_size
        /\ args.batch_size > 1
        /\ SumBytes(dispatched[n].phrases) < args.batch_max_bytes

FullyTranslated(rows) == \A n \in 1..Len(rows) : rows[n].base # "" => rows[n].dst # ""

C8_Idempotent ==
    (run >= 2 /\ FullyTranslated(at_start.translations)) =>
        /\ ~InCall
        /\ dispatched = <<>>
        /\ translations = at_start.translations
        /\ progress = at_start.progress
        /\ stored_translations = at_start.translations
        /\ stored_progress = at_start.progress

\* the second run is over, after a first run that had the model translate "Bye"
C8_Witness ==
    /\ run = 2
    /\ pc = "done"
    /\ FullyTranslated(at_start.translations)
    /\ Len(translations) = 2
    /\ \E n \in 1..Len(translations) : translations[n].dst = "Adios"

(***************************************************************************)
(* C9.  Reruns are additive: an invocation changes no destination cell     *)
(* that was non-empty when it started and keeps every cache entry that     *)
(* existed when it started, with its value, in memory and in storage.      *)
(***************************************************************************)
C9_Additive ==
    run >= 1 =>
        /\ Len(translations) = Len(at_start.translations)
        /\ Len(stored_translations) = Len(at_start.translations)
        /\ \A n \in 1..Len(at_start.translations) :
               at_start.translations[n].dst # "" =>
                   /\ translations[n].dst = at_start.translations[n].dst
                   /\ stored_translations[n].dst = at_start.translations[n].dst
        /\ \A p \in DOMAIN at_start.progress :
               /\ p \in DOMAIN progress
               /\ progress[p] = at_start.progress[p]
               /\ p \in DOMAIN stored_progress
               /\ stored_progress[p] = at_start.progress[p]

\* a run that started with a translated row and a cache entry ends after a merge
C9_Witness ==
    /\ pc = "done"
    /\ \E n \in 1..Len(at_start.translations) : at_start.translations[n].dst # ""
    /\ DOMAIN at_start.progress # {}
    /\ merged # {}

(***************************************************************************)
(* C10.  Abandoned batch as claimed: the phrases of a batch that was       *)
(* abandoned stay untranslated and uncached, and the next invocation       *)
(* dispatches their rows again.                                            *)
(***************************************************************************)
C10_AbandonedStaysUncached ==
    /\ \A n \in 1..Len(dispatched) :
           Abandoned(dispatched[n]) =>
               \A m \in 1..Len(dispatched[n].phrases) :
                   /\ translations[dispatched[n].indices[m]].dst = ""
                   /\ dispatched[n].phrases[m] \notin DOMAIN progress
    /\ (run >= 2 /\ pc = "done") => prev_abandoned \subseteq DispatchedRows

(***************************************************************************)
(* C10, amended.  The step that abandons a batch changes no row and no     *)
(* cache entry; the rows of an abandoned batch stay untranslated for the   *)
(* rest of the invocation; and the next invocation dispatches each of them *)
(* again unless the cache has an entry for its phrase when the row is      *)
(* visited (from a row that was already translated or from another batch). *)
(***************************************************************************)
AbandonStep ==
    /\ dispatched # <<>>
    /\ Len(dispatched') = Len(dispatched)
    /\ ~Abandoned(dispatched[Len(dispatched)])
    /\ Abandoned(dispatched'[Len(dispatched)])

HitRows == { h.row : h \in hits }

C10_AbandonedLeavesNoTrace ==
    /\ [][AbandonStep => (translations' = translations /\ progress' = progress)]_vars
    /\ [](\A n \in 1..Len(dispatched) :
              Abandoned(dispatched[n]) =>
                  \A m \in 1..Len(dispatched[n].indices) :
                      translations[dispatched[n].indices[m]].dst = "")
    /\ []((run >= 2 /\ pc \in {"final", "done"}) =>
              prev_abandoned \subseteq (DispatchedRows \cup HitRows))

\* the second run dispatched a row again that the first run had abandoned
C10_Witness ==
    /\ run = 2
    /\ pc = "done"
    /\ prev_abandoned \cap DispatchedRows # {}

(***************************************************************************)
(* C11.  Per-batch failures never abort the run: the step that gives a     *)
(* batch up (terminal call error, or reply still unparseable after the     *)
(* repair) hands control back to translate where _process_batch was        *)
(* awaited, with the loop position untouched; translate never ends up      *)
(* raised and, until it is done, always has a next step to take; and when  *)
(* an invocation that gave a batch up is done, every row was visited,      *)
(* every row found untranslated and uncached was dispatched, and rows and  *)
(* cache are saved.                                                        *)
(***************************************************************************)
C11_FailuresDoNotAbort ==
    /\ [][AbandonStep => (pc' = after /\ pc' \in {"loop", "final"} /\ i' = i)]_vars
    /\ [](pc \in {"new", "config_error", "idle", "loop", "call", "fix", "final", "done"})
    /\ [](pc \in {"loop", "call", "fix", "final"} => ENABLED Next)
    /\ []((pc = "done" /\ \E n \in 1..Len(dispatched) : Abandoned(dispatched[n])) =>
              /\ i = Len(translations) + 1
              /\ \A n \in 1..Len(pending) : pending[n] \in DispatchedRows
              /\ stored_progress = progress
              /\ stored_translations = translations)

\* the run is over; its first batch was given up and a later batch was dispatched
C11_Witness ==
    /\ pc = "done"
    /\ Len(dispatched) = 2
    /\ Abandoned(dispatched[1])
    /\ dispatched[2].outcome = "merged"

(***************************************************************************)
(* C12.  Partial batch result: when the reply of a batch parses and is a   *)
(* list of strings shorter than the batch, the step that merges it sets    *)
(* the destination cell of exactly the rows whose phrase stands at a       *)
(* position the list covers, and the cache entry of exactly those phrases, *)
(* to the string at that position; the rows of the other phrases keep an   *)
(* empty cell, the cache gets no entry for them, no other row and no other *)
(* cache entry changes, and control is back in translate for the next      *)
(* batch.                                                                  *)
(***************************************************************************)
MergeStep ==
    /\ dispatched # <<>>
    /\ Len(dispatched') = Len(dispatched)
    /\ dispatched[Len(dispatched)].outcome = "in_flight"
    /\ dispatched'[Len(dispatched)].outcome = "merged"

ListOfStrings(reply) ==
    /\ reply.payload.valid
    /\ reply.payload.value.t = "list"
    /\ \A m \in 1..Len(reply.payload.value.items) : reply.payload.value.items[m].t = "str"

SamePhraseEntry(phrase, before, now) ==
    /\ phrase \in DOMAIN now <=> phrase \in DOMAIN before
    /\ phrase \in DOMAIN before => now[phrase] = before[phrase]

C12_PartialResult ==
    [][ ( /\ MergeStep
          /\ ListOfStrings(dispatched'[Len(dispatched)].reply)
          /\ Len(dispatched'[Len(dispatched)].reply.payload.value.items)
                 < Len(dispatched[Len(dispatched)].phrases) )
        => LET b == dispatched[Len(dispatched)]
               items == dispatched'[Len(dispatched)].reply.payload.value.items
               covered == { m \in 1..Len(b.phrases) : m <= Len(items) }
               mapped == { b.phrases[m] : m \in covered }
               value(phrase) == items[CHOOSE m \in covered : b.phrases[m] = phrase].s
           IN  /\ \A n \in 1..Len(b.phrases) :
                      IF b.phrases[n] \in mapped
                      THEN /\ translations'[b.indices[n]].dst = value(b.phrases[n])
                           /\ b.phrases[n] \in DOMAIN progress'
                           /\ progress'[b.phrases[n]] = value(b.phrases[n])
                      ELSE /\ translations'[b.indices[n]].dst = ""
                           /\ SamePhraseEntry(b.phrases[n], progress, progress')
               /\ \A r \in 1..Len(translations) :
                      r \notin Indices(b) => translations'[r] = translations[r]
               /\ \A p \in (DOMAIN progress \cup DOMAIN progress') :
                      p \notin mapped => SamePhraseEntry(p, progress, progress')
               /\ pc' = after
               /\ pc' \in {"loop", "final"} ]_vars

\* a batch of two different phrases got a reply that maps the first one only
C12_Witness ==
    \E n \in 1..Len(dispatched) :
        /\ dispatched[n].outcome = "merged"
        /\ Len(dispatched[n].phrases) = 2
        /\ dispatched[n].phrases[1] # dispatched[n].phrases[2]
        /\ ListOfStrings(dispatched[n].reply)
        /\ Len(dispatched[n].reply.payload.value.items) = 1
        /\ translations[dispatched[n].indices[1]].dst # ""
        /\ translations[dispatched[n].indices[2]].dst = ""
        /\ dispatched[n].phrases[2] \notin DOMAIN progress

(***************************************************************************)
(* Helpers of the properties of a driver call.                             *)
(***************************************************************************)
\* the positions in the event log where the model was invoked
Invokes == { n \in 1..Len(d_events) : d_events[n].e = "invoke" }

\* the positions where the except block of the loop was entered
Excepts == { n \in 1..Len(d_events) : d_events[n].e = "except" }

\* the attempt made at position n ended in the except block
AttemptFailed(n) ==
    \E x \in Excepts : x > n /\ \A j \in (n + 1)..(x - 1) : j \notin Invokes

IsBackoff(ev) == ev.e = "sleep" /\ ev.what = "backoff"

\* the backoff sleeps after the attempt at position n and before the next attempt
BackoffsAfter(n) ==
    { m \in (n + 1)..Len(d_events) :
          /\ IsBackoff(d_events[m])
          /\ \A j \in (n + 1)..(m - 1) : j \notin Invokes }

\* the number of the attempt at position n, counted from 0
AttemptNumber(n) == Cardinality({ j \in Invokes : j < n })

BackoffSecs(q) == [n \in 1..Len(q) |-> q[n].secs]

InvokeResults == [n \in 1..Len(SelectSeq(d_events, LAMBDA ev : ev.e = "invoke")) |->
                      SelectSeq(d_events, LAMBDA ev : ev.e = "invoke")[n].what]

C14_BackoffSchedule ==
    d_method \in BaseMethods =>
        /\ \A n \in Invokes :
               IF AttemptFailed(n) /\ AttemptNumber(n) < d_max_retries - 1
               THEN /\ Cardinality(BackoffsAfter(n)) = 1
                    /\ \A m \in BackoffsAfter(n) :
                           d_events[m].secs = d_delay_seconds * Pow2(AttemptNumber(n))
               ELSE BackoffsAfter(n) = {}
        /\ \A m \in 1..Len(d_events) :
               IsBackoff(d_events[m]) => \E n \in Invokes : m \in BackoffsAfter(n)
        /\ ( /\ d_delay_seconds = 1
             /\ d_max_retries = 3
             /\ d_pc = "returned"
             /\ InvokeResults = << "error", "error", "json" >> )
           => BackoffSecs(SelectSeq(d_events, IsBackoff)) = << 1, 2 >>

\* delay 1, max_retries 3, a function call whose model failed twice and then answered
C14_Witness ==
    /\ d_method = "function"
    /\ d_delay_seconds = 1
    /\ d_max_retries = 3
    /\ d_pc = "returned"
    /\ InvokeResults = << "error", "error", "json" >>
    /\ BackoffSecs(SelectSeq(d_events, IsBackoff)) = << 1, 2 >>

(***************************************************************************)
(* C15.  Pacing delay after success: in every calling convention, each     *)
(* invocation of the model that returned is followed at once by one sleep  *)
(* of delay_seconds, before the call returns or goes on.                   *)
(***************************************************************************)
C15_PacingAfterSuccess ==
    \A n \in Invokes :
        d_events[n].what # "error" =>
            /\ n + 1 <= Len(d_events)
            /\ d_events[n + 1] = Ev("sleep", "pacing", d_delay_seconds)

(***************************************************************************)
(* C16.  One repair round-trip: a batch whose reply does not parse gets    *)
(* exactly one call of _fix_invalid_json and exactly one further parse; a  *)
(* batch whose reply parses gets none.  The step that ends the repair      *)
(* leaves the batch merged or abandoned and hands control back to          *)
(* translate, never to another model call for the same batch, and the      *)
(* record of a finished batch does not change any more.                    *)
(***************************************************************************)
Finished(b) == b.outcome # "in_flight"

C16_OneRepair ==
    /\ [](\A n \in 1..Len(dispatched) :
              LET b == dispatched[n]
              IN  /\ b.repair.parses <= 2
                  /\ b.outcome = "merged" => (b.repair.how = "none" /\ b.repair.parses = 1)
                  /\ b.outcome = "call_failed" => (b.repair.how = "none" /\ b.repair.parses = 0)
                  /\ b.outcome \in {"repaired", "unparseable"} =>
                         /\ b.repair.how \in {"returned", "failed"}
                         /\ b.repair.parses = 2
                         /\ ~b.reply.payload.valid
                  /\ ~Finished(b) => (n = Len(dispatched) /\ InCall /\ b.repair.how = "none")
                  /\ (~Finished(b) /\ pc = "fix") => b.repair.parses = 1)
    /\ [][pc = "fix" /\ Finished(dispatched'[Len(dispatched)])
              => /\ pc' = after
                 /\ pc' \in {"loop", "final"}
                 /\ dispatched'[Len(dispatched)].outcome \in {"repaired", "unparseable"}]_vars
    /\ [][\A n \in 1..Len(dispatched) :
              (Finished(dispatched[n]) /\ n <= Len(dispatched'))
                  => dispatched'[n] = dispatched[n]]_vars

\* the repair call answered, the second parse failed too, and the run went on to its end
C16_Witness ==
    /\ pc = "done"
    /\ \E n \in 1..Len(dispatched) :
           /\ dispatched[n].outcome = "unparseable"
           /\ dispatched[n].repair = Trace("returned", StillInvalidPayload, 2)

(***************************************************************************)
(* C17.  Repair recovery: when the reply of a batch was invalid JSON and   *)
(* the repair call returned a JSON object that maps every phrase of the    *)
(* batch to a string, then once the batch is finished every row of the     *)
(* batch holds the string mapped to its phrase and the cache maps the      *)
(* phrase to the same string.                                              *)
(***************************************************************************)
FullMapping(fixed, phrases) ==
    /\ fixed.valid
    /\ fixed.value.t = "dict"
    /\ \A n \in 1..Len(phrases) :
           /\ HasKey(fixed.value, phrases[n])
           /\ Get(fixed.value, phrases[n]).t = "str"

C17_RepairRecovery ==
    \A n \in 1..Len(dispatched) :
        LET b == dispatched[n]
        IN  ( /\ Finished(b)
              /\ ~b.reply.payload.valid
              /\ b.repair.how = "returned"
              /\ FullMapping(b.repair.fixed, b.phrases) )
            => \A m \in 1..Len(b.phrases) :
                   LET mapped == Get(b.repair.fixed.value, b.phrases[m]).s
                   IN  /\ translations[b.indices[m]].dst = mapped
                       /\ b.phrases[m] \in DOMAIN progress
                       /\ progress[b.phrases[m]] = mapped

(***************************************************************************)
(* C18.  Repair is best-effort: the repair call makes at most 2 attempts,  *)
(* whatever max_retries translate was given (3 here, and the translation   *)
(* call does make a third attempt); it fails terminally only after its     *)
(* second attempt failed, and then _fix_invalid_json raises nothing: it    *)
(* hands back the fragment it was given, the second parse runs on it, and  *)
(* control returns to translate.                                           *)
(***************************************************************************)
C18_RepairBestEffort ==
    /\ [](pc = "fix" => retry + 1 <= 2)
    /\ [](\A n \in 1..Len(dispatched) :
              dispatched[n].repair.how = "failed" =>
                  /\ dispatched[n].repair.fixed = ExtractJson(dispatched[n].reply)
                  /\ ~dispatched[n].repair.fixed.valid
                  /\ dispatched[n].repair.parses = 2
                  /\ dispatched[n].outcome = "unparseable")
    /\ [][(pc = "fix" /\ dispatched'[Len(dispatched)].repair.how = "failed")
              => /\ retry + 1 = 2
                 /\ pc' = after
                 /\ pc' \in {"loop", "final"}]_vars

\* translate was given max_retries 3; the repair call of a batch failed terminally
\* and the run went on to its end
C18_Witness ==
    /\ pc = "done"
    /\ args.max_retries = 3
    /\ \E n \in 1..Len(dispatched) :
           /\ dispatched[n].repair.how = "failed"
           /\ dispatched[n].repair.fixed = InvalidPayload

(***************************************************************************)
(* C19.  Single pass, no re-dispatch: within an invocation the loop        *)
(* position only moves forward, one row at a time, and has passed every    *)
(* row when the invocation reaches its final save; no row is in two        *)
(* dispatched batches; a translation call starts only from the loop, for a *)
(* batch that was just handed over; and the step that finishes a batch,    *)
(* with a terminal call error or otherwise, returns to translate and never *)
(* to a model call.                                                        *)
(***************************************************************************)
NoRepeats(q) == \A m, n \in 1..Len(q) : q[m] = q[n] => m = n

FinishStep ==
    /\ dispatched # <<>>
    /\ Len(dispatched') = Len(dispatched)
    /\ ~Finished(dispatched[Len(dispatched)])
    /\ Finished(dispatched'[Len(dispatched)])

C19_SinglePass ==
    /\ [][run' = run => (i' = i \/ (i' = i + 1 /\ pc = "loop" /\ i <= Len(translations)))]_vars
    /\ [](pc \in {"final", "done"} => i = Len(translations) + 1)
    /\ [](NoRepeats(FlatIndices(dispatched)))
    /\ [](\A n \in 1..Len(dispatched) : dispatched[n].indices # <<>>)
    /\ [][(pc' = "call" /\ pc # "call")
              => /\ pc = "loop"
                 /\ Len(dispatched') = Len(dispatched) + 1
                 /\ ~Finished(dispatched'[Len(dispatched')])]_vars
    /\ [][FinishStep => pc' \in {"loop", "final"}]_vars
    /\ [](InCall => ~Finished(dispatched[Len(dispatched)]))

\* the call of the first batch failed terminally; the run passed every row once,
\* dispatched the next batch and ended
C19_Witness ==
    /\ pc = "done"
    /\ Len(dispatched) = 2
    /\ dispatched[1].outcome = "call_failed"
    /\ Finished(dispatched[2])
    /\ i = 3

(***************************************************************************)
(* C20.  Strictly sequential dispatch: at most one batch is in flight at   *)
(* any time, and a model call is outstanding exactly while one is; a batch *)
(* is handed over only when no call is outstanding and every earlier batch *)
(* is finished; and the repair call starts only from the translation call  *)
(* of the same batch, in the step in which that call returned its reply.   *)
(***************************************************************************)
InFlight == { n \in 1..Len(dispatched) : ~Finished(dispatched[n]) }

C20_Sequential ==
    /\ [](Cardinality(InFlight) <= 1)
    /\ [](InCall <=> InFlight # {})
    /\ [](InFlight \subseteq {Len(dispatched)})
    /\ [][Len(dispatched') = Len(dispatched) + 1
              => /\ ~InCall
                 /\ InFlight = {}
                 /\ pc' = "call"]_vars
    /\ [][(pc' = "fix" /\ pc # "fix")
              => /\ pc = "call"
                 /\ Len(dispatched') = Len(dispatched)
                 /\ dispatched[Len(dispatched)].repair.parses = 0
                 /\ dispatched'[Len(dispatched)].repair.parses = 1
                 /\ dispatched'[Len(dispatched)].reply = response']_vars

\* the call of the second batch is outstanding after the first batch was finished
C20_Witness ==
    /\ pc = "call"
    /\ Len(dispatched) = 2
    /\ InFlight = {2}

(***************************************************************************)
(* Single calls of the functions that have no state of their own: the      *)
(* arguments are drawn at the start, one action applies the function.      *)
(***************************************************************************)
\* the phrases of a batch handed to the parser (a file may hold a phrase twice)
PhraseChoices == {"Hello", "Bye"}

\* a JSON object with one or two string fields
Obj1(key, x) == JDict(<< Entry(key, JStr(x)) >>)

Obj2(k1, x1, k2, x2) == JDict(<< Entry(k1, JStr(x1)), Entry(k2, JStr(x2)) >>)

\* the elements of the arrays of the model: strings, objects with a translation
\* field, a text field or both, and an object with neither
ElementChoices ==
    { JStr("Hola"), JStr("Adios"),
      Obj1("translation", "Adios"),
      Obj1("text", "Hola"),
      Obj2("text", "Hello", "translation", "Hola"),
      JDict(<<>>) }

\* the keys of the objects of the model: phrases, numbers, and a key that is neither
KeyChoices == {"Hello", "Bye", "0", "1", "2", "3", "other"}

\* the values of the objects of the model: a string, a text/translation pair, and
\* an object with a text field and no translation field
DictValueChoices ==
    { JStr("Hola"),
      Obj2("text", "Hello", "translation", "Hola"),
      Obj1("text", "Hello") }

\* json.loads gives every key of an object once
DistinctKeys(es) == \A m, n \in 1..Len(es) : m # n => es[m].k # es[n].k

EntryChoices == { Entry(key, v) : key \in KeyChoices, v \in DictValueChoices }

PayloadChoices ==
    { Payload(TRUE, JList(xs)) : xs \in SeqsUpTo(ElementChoices, MaxItems) }
    \cup { Payload(TRUE, JDict(es)) : es \in { q \in SeqsUpTo(EntryChoices, MaxItems) : DistinctKeys(q) } }
    \cup { Payload(TRUE, JStr("Hola")), Payload(TRUE, JNull),
           InvalidPayload, EmptyPayload, GarbledPayload }

MethodCalls ==
    [fn : {"get_best_translation_method"},
     requested_method : RequestedChoices,
     supports_structured_output : BOOLEAN,
     supports_function_calling : BOOLEAN,
     preferred_method : PreferredChoices]

\* get_driver(model).get_best_translation_method(requested_method)
DriverMethodCalls ==
    [fn : {"get_driver"},
     model : RegisteredModels,
     requested_method : RequestedChoices]

ParseCalls ==
    [fn : {"_parse_batch_response"},
     response : { Response(f, p) : f \in BOOLEAN, p \in PayloadChoices },
     original_phrases : SeqsUpTo(PhraseChoices, MaxPhrases)]

FormatCalls ==
    [fn : {"format_prompt"},
     template : SeqsUpTo(TemplateChars, MaxTemplate),
     kwargs : KwargsChoices]

\* the rows of the batches handed to the prompt builder: untranslated rows, two
\* of them with the same phrase, one with and one without context
PromptRowChoices ==
    { Row("Hello", "", "greeting"), Row("Hello", "", ""), Row("Bye", "", "") }

\* translate, lines 435-437: the phrase and the index of every row of the batch
BatchPhrases(rows) == [n \in 1..Len(rows) |-> rows[n].base]

BatchIndices(rows) == [n \in 1..Len(rows) |-> n]

PromptCalls ==
    [fn : {"_create_batch_prompt"},
     translations : SeqsUpTo(PromptRowChoices, MaxRows) \ { <<>> },
     prompt_template : PromptTemplateChoices,
     global_context : GlobalContextChoices]

ValidateCalls ==
    [fn : {"_validate_prompt"},
     prompt_type : PromptTypes,
     template : FileTemplateChoices,
     strict : BOOLEAN]

\* the elements of the arrays handed to translate_standard: two strings, a blank
\* string, an object and null
ToolElementChoices ==
    { JStr("Hola"), JStr("Adios"), JStr(" "), Obj1("translation", "Adios"), JNull }

ToolPayloadChoices ==
    { Payload(TRUE, JList(xs)) : xs \in SeqsUpTo(ToolElementChoices, MaxItems) }
    \cup { Payload(TRUE, JDict(<< Entry("translations", JList(xs)) >>)) :
               xs \in SeqsUpTo(ToolElementChoices, MaxItems) }
    \cup { Payload(TRUE, Obj1("Hello", "Hola")), Payload(TRUE, JStr("Hola")), InvalidPayload }

StandardCalls ==
    [fn : {"translate_standard"},
     phrases : SeqsUpTo(PhraseChoices, MaxPhrases),
     call_failed : BOOLEAN,
     response : { Response(f, p) : f \in BOOLEAN, p \in ToolPayloadChoices }]

\* the rows of the phrases of the call, all untranslated
UntranslatedRows(phrases) == [n \in 1..Len(phrases) |-> Row(phrases[n], "", "")]

Returned(v) == [returned |-> TRUE, value |-> v]

FunctionsInit ==
    /\ ProjectInit
    /\ stored_translations = <<>>
    /\ stored_progress = EmptyProgress
    /\ args = CHOOSE a \in [batch_size : BatchSizeChoices,
                              batch_max_bytes : BatchMaxBytesChoices,
                              max_retries : MaxRetriesChoices,
                              model : ModelChoices,
                              dst_language : DstLanguageChoices] : TRUE
    /\ DriverUnused
    /\ \/ f_call \in MethodCalls
       \/ f_call \in ParseCalls
       \/ f_call \in FormatCalls
       \/ f_call \in PromptCalls
       \/ f_call \in ValidateCalls
       \/ f_call \in StandardCalls
       \/ f_call \in DriverMethodCalls
    /\ f_result = NoResult
    /\ PromptsUnused

\* driver.get_best_translation_method(requested_method)
GetBestTranslationMethodCall ==
    /\ f_call.fn = "get_best_translation_method"
    /\ ~f_result.returned
    /\ f_result' = Returned(GetBestTranslationMethod(f_call.requested_method,
                                                     f_call.supports_structured_output,
                                                     f_call.supports_function_calling,
                                                     f_call.preferred_method))
    /\ UNCHANGED << project, driver, f_call, prompts >>

\* get_driver(model).get_best_translation_method(requested_method)
GetDriverCall ==
    /\ f_call.fn = "get_driver"
    /\ ~f_result.returned
    /\ f_result' = Returned(MethodOfDriver(GetDriver(f_call.model), f_call.requested_method))
    /\ UNCHANGED << project, driver, f_call, prompts >>

\* self._parse_batch_response(response, original_phrases)
ParseBatchResponseCall ==
    /\ f_call.fn = "_parse_batch_response"
    /\ ~f_result.returned
    /\ f_result' = Returned(ParseBatchResponse(f_call.response, f_call.original_phrases))
    /\ UNCHANGED << project, driver, f_call, prompts >>

\* self.prompt_manager.format_prompt(template, **kwargs)
FormatPromptCall ==
    /\ f_call.fn = "format_prompt"
    /\ ~f_result.returned
    /\ f_result' = Returned(FormatPrompt(f_call.template, f_call.kwargs))
    /\ UNCHANGED << project, driver, f_call, prompts >>

\* _process_batch, lines 502-514: for a batch that is not empty, the prompt is
\* built and handed to driver.translate_async as it is
CreateBatchPromptCall ==
    /\ f_call.fn = "_create_batch_prompt"
    /\ ~f_result.returned
    /\ LET built == CreateBatchPrompt(BatchPhrases(f_call.translations), f_call.translations,
                                      BatchIndices(f_call.translations),
                                      f_call.prompt_template, f_call.global_context)
       IN  f_result' = Returned([phrase_contexts |-> built.phrase_contexts,
                                 prompt |-> built.prompt,
                                 sent |-> built.prompt])
    /\ UNCHANGED << project, driver, f_call, prompts >>

\* self._validate_prompt(prompt_type, template, strict)
ValidatePromptCall ==
    /\ f_call.fn = "_validate_prompt"
    /\ ~f_result.returned
    /\ f_result' = Returned(ValidatePrompt(f_call.prompt_type, f_call.template, f_call.strict))
    /\ UNCHANGED << project, driver, f_call, prompts >>

\* tool.translate_standard(phrases, indices, translations, progress, ...)
TranslateStandardCall ==
    /\ f_call.fn = "translate_standard"
    /\ ~f_result.returned
    /\ f_result' = Returned(TranslateStandard(f_call.call_failed, f_call.response,
                                              f_call.phrases, BatchIndices(f_call.phrases),
                                              UntranslatedRows(f_call.phrases), EmptyProgress))
    /\ UNCHANGED << project, driver, f_call, prompts >>

FunctionsNext ==
    \/ GetDriverCall
    \/ TranslateStandardCall
    \/ ValidatePromptCall
    \/ GetBestTranslationMethodCall
    \/ ParseBatchResponseCall
    \/ FormatPromptCall
    \/ CreateBatchPromptCall

FunctionsSpec == FunctionsInit /\ [][FunctionsNext]_vars

(***************************************************************************)
(* C21.  Final unconditional persist: when an invocation of translate has  *)
(* returned, with or without a dispatched batch, the stored cache is the   *)
(* cache in memory and the stored rows are the rows in memory; the cache   *)
(* entries backfilled from translated rows and the cells filled from the   *)
(* cache are in storage.                                                   *)
(***************************************************************************)
\* the rows found translated with a phrase that the cache did not hold
BackfilledRows ==
    { n \in 1..Len(at_start.translations) :
          /\ at_start.translations[n].base # ""
          /\ at_start.translations[n].dst # ""
          /\ at_start.translations[n].base \notin DOMAIN at_start.progress }

C21_FinalPersist ==
    pc = "done" =>
        /\ stored_progress = progress
        /\ stored_translations = translations
        /\ \A n \in BackfilledRows : at_start.translations[n].base \in DOMAIN stored_progress
        /\ \A h \in hits : stored_translations[h.row].dst = h.value

\* an invocation without any batch returned after a backfill and a fill from the cache
C21_Witness ==
    /\ pc = "done"
    /\ dispatched = <<>>
    /\ BackfilledRows # {}
    /\ hits # {}
    /\ stored_progress # at_start.progress
    /\ stored_translations # at_start.translations

(***************************************************************************)
(* C22.  Backfill: the visit of a row with a non-empty base phrase and a   *)
(* non-empty destination cell changes no row, adds nothing to the batch    *)
(* being filled and dispatches nothing; after it the cache has an entry    *)
(* for the phrase: the entry it had, unchanged, or else the row's          *)
(* destination value; no other cache entry changes.  Such a row keeps its  *)
(* cell for the whole invocation and is in no dispatched batch.            *)
(***************************************************************************)
VisitOfTranslatedRow ==
    /\ pc = "loop"
    /\ i <= Len(translations)
    /\ i' = i + 1
    /\ translations[i].base # ""
    /\ translations[i].dst # ""

C22_Backfill ==
    /\ [][VisitOfTranslatedRow =>
              LET phrase == translations[i].base
              IN  /\ translations' = translations
                  /\ UNCHANGED << phrases_to_translate, phrase_indices, dispatched >>
                  /\ pc' = "loop"
                  /\ phrase \in DOMAIN progress'
                  /\ progress'[phrase] = IF phrase \in DOMAIN progress
                                         THEN progress[phrase]
                                         ELSE translations[i].dst
                  /\ DOMAIN progress' = DOMAIN progress \cup {phrase}
                  /\ \A p \in DOMAIN progress : p # phrase => progress'[p] = progress[p]]_vars
    /\ [](\A n \in 1..Len(translations) :
              (at_start.translations[n].base # "" /\ at_start.translations[n].dst # "") =>
                  /\ translations[n] = at_start.translations[n]
                  /\ n \notin DispatchedRows
                  /\ \A m \in 1..Len(phrase_indices) : phrase_indices[m] # n)

\* a translated row was visited whose phrase the cache already held with another
\* value, and the entry is still the old one
C22_Witness ==
    \E n \in 1..Len(translations) :
        /\ pc = "loop"
        /\ i > n
        /\ translations[n].dst = "Salut"
        /\ translations[n].base \in DOMAIN at_start.progress
        /\ progress[translations[n].base] = "Ola"

(***************************************************************************)
(* C23.  Configuration errors are fatal and early: with a model name that  *)
(* is not registered or a destination language that is not one of the      *)
(* project's, the program ends in the configuration error without ever     *)
(* entering the loop over the rows: no batch is dispatched, no model call  *)
(* is made, and no step writes the stored rows or the stored cache.        *)
(***************************************************************************)
BadConfiguration ==
    \/ args.model \notin RegisteredModels
    \/ args.dst_language \notin Languages

Supports(c, method) ==
    \/ method = "standard"
    \/ method = "structured" /\ c.supports_structured_output
    \/ method = "function" /\ c.supports_function_calling

MethodChosen == f_call.fn = "get_best_translation_method" /\ f_result.returned

C24_ChooseMethod ==
    MethodChosen =>
        f_result.value =
            CASE f_call.requested_method # "auto" /\ Supports(f_call, f_call.requested_method)
                     -> f_call.requested_method
              [] OTHER -> IF Supports(f_call, f_call.preferred_method)
                          THEN f_call.preferred_method
                          ELSE "standard"

\* function calling was requested from a driver that does not support it and
\* prefers structured output, which it supports
C24_Witness ==
    /\ MethodChosen
    /\ f_call.requested_method = "function"
    /\ ~f_call.supports_function_calling
    /\ f_call.preferred_method = "structured"
    /\ f_call.supports_structured_output
    /\ f_result.value = "structured"

(***************************************************************************)
(* Helpers of the properties of the parser.                                *)
(***************************************************************************)
Parsed == f_call.fn = "_parse_batch_response" /\ f_result.returned

\* the candidate of the reply and what json.loads makes of it
Candidate == ExtractJson(f_call.response)

Decoded == Candidate.value

Min(a, b) == IF a < b THEN a ELSE b

\* an element in one of the array shapes: a string, or an object with a
\* translation field or a text field
InArrayShape(e) ==
    \/ e.t = "str"
    \/ e.t = "dict" /\ (HasKey(e, "translation") \/ HasKey(e, "text"))

\* the translated text such an element carries
TextOf(e) ==
    IF e.t = "str" THEN e
    ELSE IF HasKey(e, "translation") THEN Get(e, "translation") ELSE Get(e, "text")

ArrayReply ==
    /\ Parsed
    /\ Candidate.valid
    /\ Decoded.t = "list"
    /\ \A n \in 1..Len(Decoded.items) : InArrayShape(Decoded.items[n])

\* the positions below both lengths
Positions == 1..Min(Len(f_call.original_phrases), Len(Decoded.items))

(***************************************************************************)
(* C25.  As stated: for a reply that decodes to an array of strings, or of *)
(* objects with a translation field or a text field, the parser maps       *)
(* original_phrases[i] to element i for every position i below both        *)
(* lengths, ignores the elements beyond the phrases and leaves the phrases *)
(* beyond the array unmapped.  Violated when a phrase stands at two        *)
(* positions of the batch: the mapping holds one value for it.             *)
(***************************************************************************)
C25_ArrayPositional ==
    ArrayReply =>
        /\ f_result.value.ok
        /\ DOMAIN f_result.value.translations = { f_call.original_phrases[n] : n \in Positions }
        /\ \A n \in Positions :
               f_result.value.translations[f_call.original_phrases[n]] = TextOf(Decoded.items[n])

(***************************************************************************)
(* C25, amended.  The mapped phrases are those at the positions below both *)
(* lengths, and each of them is mapped to the element at the last such     *)
(* position where it stands: elements beyond the phrases are ignored and   *)
(* phrases that stand only beyond the array are unmapped.                  *)
(***************************************************************************)
LastPosition(p) ==
    CHOOSE n \in Positions :
        /\ f_call.original_phrases[n] = p
        /\ \A m \in Positions : f_call.original_phrases[m] = p => m <= n

C25_ArrayShapes ==
    ArrayReply =>
        /\ f_result.value.ok
        /\ DOMAIN f_result.value.translations = { f_call.original_phrases[n] : n \in Positions }
        /\ \A n \in Positions :
               LET p == f_call.original_phrases[n]
               IN  f_result.value.translations[p] = TextOf(Decoded.items[LastPosition(p)])

\* an array of an object with a text field and a string, for a batch that holds
\* the same phrase twice: the phrase is mapped to the second element
C25_Witness ==
    /\ ArrayReply
    /\ f_call.original_phrases = << "Hello", "Hello" >>
    /\ Decoded.items = << Obj1("text", "Hola"), JStr("Adios") >>
    /\ f_result.value.translations = [p \in {"Hello"} |-> JStr("Adios")]

(***************************************************************************)
(* C26.  For a reply that decodes to an object whose keys are original     *)
(* phrases, the parser maps every key to its value, and a value that is an *)
(* object with a text/translation pair is resolved to the translation      *)
(* string of that object.  Violated: the pair itself is stored.            *)
(***************************************************************************)
IsPair(v) == v.t = "dict" /\ HasKey(v, "text") /\ HasKey(v, "translation")

DictReply == Parsed /\ Candidate.valid /\ Decoded.t = "dict"

PhraseKeyedReply ==
    /\ DictReply
    /\ \A n \in 1..Len(Decoded.items) :
           /\ InPhrases(Decoded.items[n].k, f_call.original_phrases)
           /\ (Decoded.items[n].t = "str" \/ IsPair(Value(Decoded.items[n])))

C26_KeyedByPhrase ==
    PhraseKeyedReply =>
        /\ f_result.value.ok
        /\ DOMAIN f_result.value.translations
               = { Decoded.items[n].k : n \in 1..Len(Decoded.items) }
        /\ \A n \in 1..Len(Decoded.items) :
               LET v == Value(Decoded.items[n])
               IN  f_result.value.translations[Decoded.items[n].k]
                       = IF IsPair(v) THEN Get(v, "translation") ELSE v

(***************************************************************************)
(* C27.  For a reply that decodes to an object with numeric keys and       *)
(* string values, and n original phrases, the parser maps key k to         *)
(* original_phrases[k-1] exactly when 1 <= k <= n; a numeric key outside   *)
(* that range maps no phrase.  Violated by the key 0.                      *)
(***************************************************************************)
NumericKeyedReply ==
    /\ DictReply
    /\ \A n \in 1..Len(Decoded.items) :
           IsDigit(Decoded.items[n].k) /\ Decoded.items[n].t = "str"

\* the entries whose key is in the range 1..n
InRangeEntries ==
    { n \in 1..Len(Decoded.items) :
          /\ 1 <= IntOf(Decoded.items[n].k)
          /\ IntOf(Decoded.items[n].k) <= Len(f_call.original_phrases) }

PhraseOfKey(n) == f_call.original_phrases[IntOf(Decoded.items[n].k)]

C27_NumericKeys ==
    NumericKeyedReply =>
        /\ f_result.value.ok
        /\ DOMAIN f_result.value.translations = { PhraseOfKey(n) : n \in InRangeEntries }
        /\ \A n \in InRangeEntries :
               (\A m \in InRangeEntries : PhraseOfKey(m) = PhraseOfKey(n) => m = n)
                   => f_result.value.translations[PhraseOfKey(n)] = Value(Decoded.items[n])

C29_ValidJsonNeverError ==
    (Parsed /\ Candidate.valid) => f_result.value.ok

(***************************************************************************)
(* C30.  format_prompt never raises, and when the template references a    *)
(* placeholder for which no variable is supplied, or is malformed, it      *)
(* returns the template unchanged.                                         *)
(***************************************************************************)
PromptFormatted == f_call.fn = "format_prompt" /\ f_result.returned

IsBrace(c) == c \in {"{", "}"}

\* the template holds {name} at p..q: braces around one or more other characters
PlaceholderAt(t, p, q) ==
    /\ q > p + 1
    /\ t[p] = "{"
    /\ t[q] = "}"
    /\ \A k \in (p + 1)..(q - 1) : ~IsBrace(t[k])

ReferencesUnsupplied(t, kwargs) ==
    \E p, q \in 1..Len(t) :
        PlaceholderAt(t, p, q) /\ ~Supplied(SubSeq(t, p + 1, q - 1), kwargs)

\* a template is well formed from p on when it is made of other characters, doubled
\* braces and placeholders
RECURSIVE WellFormed(_, _)
WellFormed(t, p) ==
    \/ p > Len(t)
    \/ ~IsBrace(t[p]) /\ WellFormed(t, p + 1)
    \/ p < Len(t) /\ IsBrace(t[p]) /\ t[p + 1] = t[p] /\ WellFormed(t, p + 2)
    \/ \E q \in (p + 2)..Len(t) : PlaceholderAt(t, p, q) /\ WellFormed(t, q + 1)

C30_FormatPromptTotal ==
    PromptFormatted =>
        /\ ~f_result.value.raised
        /\ (\/ ReferencesUnsupplied(f_call.template, f_call.kwargs)
            \/ ~WellFormed(f_call.template, 1))
               => f_result.value.text = f_call.template

\* the template "{}x}" with x supplied: no name is found missing, str.format raises,
\* and the template comes back as it was
C30_Witness ==
    /\ PromptFormatted
    /\ f_call.template = << "{", "}", "x", "}" >>
    /\ DOMAIN f_call.kwargs = {"x"}
    /\ ~f_result.value.raised
    /\ f_result.value.text = f_call.template

(***************************************************************************)
(* C31.  The phrase-context object built for a batch has an entry for a    *)
(* phrase exactly when a row of the batch with that phrase has a non-empty *)
(* context, and the phrase-context section is left out of the prompt when  *)
(* no phrase of the batch has context.                                     *)
(***************************************************************************)
PromptBuilt == f_call.fn = "_create_batch_prompt" /\ f_result.returned

\* the piece of text stands in the prompt
InPrompt(piece, prompt) == \E n \in 1..Len(prompt) : prompt[n] = piece

C31_PhraseContexts ==
    PromptBuilt =>
        /\ DOMAIN f_result.value.phrase_contexts
               = { f_call.translations[n].base :
                       n \in { m \in 1..Len(f_call.translations) :
                                   f_call.translations[m].context # "" } }
        /\ (\A n \in 1..Len(f_call.translations) : f_call.translations[n].context = "")
               => ~InPrompt("Phrase-specific contexts", f_result.value.prompt)

\* a batch with Hello (context "greeting") and Bye (no context): one entry, and the
\* section stands in the prompt made from the template with the context placeholders
C31_Witness ==
    /\ PromptBuilt
    /\ f_call.translations = << Row("Hello", "", "greeting"), Row("Bye", "", "") >>
    /\ f_call.prompt_template = ContextTemplate
    /\ f_result.value.phrase_contexts = [p \in {"Hello"} |-> "greeting"]
    /\ InPrompt("Phrase-specific contexts", f_result.value.prompt)

(***************************************************************************)
(* C32.  For a prompt kind with required placeholders and a non-empty      *)
(* template that lacks at least one of them, strict validation reports the *)
(* template invalid with the missing names, and lenient validation reports *)
(* it valid and still returns the missing names as a warning.  Violated:   *)
(* lenient validation returns no message.                                  *)
(***************************************************************************)
Validated == f_call.fn = "_validate_prompt" /\ f_result.returned

\* the required placeholders of the kind that the template does not hold
MissingPlaceholders(prompt_type, t) ==
    { v \in RequiredVarsOf[prompt_type] :
          ~\E p \in 1..Len(t) : p + 2 <= Len(t) /\ SubSeq(t, p, p + 2) = Placeholder(v) }

LacksRequired ==
    /\ Validated
    /\ f_call.prompt_type \in DOMAIN RequiredVarsOf
    /\ f_call.template # <<>>
    /\ MissingPlaceholders(f_call.prompt_type, f_call.template) # {}

C32_ValidationModes ==
    LacksRequired =>
        /\ f_result.value.is_valid = ~f_call.strict
        /\ f_result.value.message = "Missing required variables"
        /\ f_result.value.missing = MissingPlaceholders(f_call.prompt_type, f_call.template)

(***************************************************************************)
(* C33.  When formatting the translation template is a no-op because the   *)
(* template names a placeholder the builder does not supply, the           *)
(* orchestrator detects it and does not send the unformatted template to   *)
(* the model.  Violated: the text format_prompt returns is sent as it is.  *)
(***************************************************************************)
\* the names _create_batch_prompt supplies to format_prompt (lines 241-249)
BuilderSupplies ==
    [name \in {"base_language", "dst_language", "phrases_json", "context", "phrase_contexts"}
        |-> ""]

C33_UnformattedNotSent ==
    (PromptBuilt /\ ReferencesUnsupplied(f_call.prompt_template, BuilderSupplies))
        => f_result.value.sent # f_call.prompt_template

(***************************************************************************)
(* C34.  The number translate_standard returns is the number of rows whose *)
(* destination cell and cache entry it set during the call; when it        *)
(* returns 0, no row and no cache entry was changed.  Violated: an element *)
(* that is no string stops the loop after earlier elements were written.   *)
(***************************************************************************)
StandardDone == f_call.fn = "translate_standard" /\ f_result.returned

\* the rows the call wrote (every row was untranslated at the start)
RowsSet == { n \in 1..Len(f_result.value.translations) : f_result.value.translations[n].dst # "" }

C34_CountMatchesEffect ==
    StandardDone =>
        /\ f_result.value.count = Cardinality(RowsSet)
        /\ \A n \in RowsSet : f_call.phrases[n] \in DOMAIN f_result.value.progress
        /\ f_result.value.count = 0 =>
               /\ f_result.value.translations = UntranslatedRows(f_call.phrases)
               /\ f_result.value.progress = EmptyProgress

(***************************************************************************)
(* C35.  Flush after append: every batch dispatched by translate, without  *)
(* its last phrase, has fewer than batch_size phrases and fewer than       *)
(* batch_max_bytes bytes; and a batch dispatched from inside the loop over *)
(* the rows has, with its last phrase, reached one of the two limits.      *)
(***************************************************************************)
ReachedLimit(phrases) ==
    \/ Len(phrases) >= args.batch_size
    \/ SumBytes(phrases) >= args.batch_max_bytes

C35_FlushAfterAppend ==
    /\ [](\A n \in 1..Len(dispatched) :
              /\ dispatched[n].phrases # <<>>
              /\ ~ReachedLimit(AllButLast(dispatched[n].phrases)))
    /\ [][(Len(dispatched') = Len(dispatched) + 1 /\ after' = "loop")
              => ReachedLimit(dispatched'[Len(dispatched')].phrases)]_vars
    /\ [](pc = "loop" => ~ReachedLimit(phrases_to_translate))

\* both limits are reached by the same phrase: Bye (3 bytes) and then Hello (5 bytes)
\* with batch_size 2 and batch_max_bytes 4
C35_Witness ==
    /\ args.batch_size = 2
    /\ args.batch_max_bytes = 4
    /\ \E n \in 1..Len(dispatched) : dispatched[n].phrases = << "Bye", "Hello" >>

(***************************************************************************)
(* C36.  When translate has returned, every row whose destination cell was *)
(* empty at the start of the run and is filled now holds the value the     *)
(* progress cache maps its base phrase to.                                  *)
(***************************************************************************)
FilledThisRun(n) ==
    /\ at_start.translations[n].dst = ""
    /\ translations[n].dst # ""

C36_RowsAgreeWithCache ==
    (pc = "done" /\ Len(at_start.translations) = Len(translations)) =>
        \A n \in 1..Len(translations) :
            FilledThisRun(n) =>
                /\ translations[n].base \in DOMAIN progress
                /\ progress[translations[n].base] = translations[n].dst

(***************************************************************************)
(* C37.  translate changes nothing of the rows but destination cells: in   *)
(* memory and in the source file, the rows are as many as were loaded, in  *)
(* the same order, each with its base text and its context.                *)
(***************************************************************************)
SameButDst(before, rows) ==
    /\ Len(rows) = Len(before)
    /\ \A n \in 1..Len(rows) :
           /\ rows[n].base = before[n].base
           /\ rows[n].context = before[n].context

C37_OnlyDstWritten ==
    /\ [](pc \in {"loop", "call", "fix", "final", "done"}
              => SameButDst(at_start.translations, translations))
    /\ [][SameButDst(stored_translations, stored_translations')]_vars

\* a row with a context was filled from a batch result, and one from the cache, and saved
C37_Witness ==
    /\ pc = "done"
    /\ \E n \in 1..Len(translations) :
           /\ translations[n].context # ""
           /\ at_start.translations[n].dst = ""
           /\ translations[n].dst = "Hola"
           /\ stored_translations[n] = translations[n]

(***************************************************************************)
(* One prompt manager, called again and again: load_prompt with any        *)
(* arguments, and clear_cache.  The default prompt files are what they are *)
(* when the manager is made; a custom prompt file is what the call finds.  *)
(***************************************************************************)
TranslationFileChoices == { NoFile, File(RequiredTemplate), File(IncompleteTemplate) }

JsonFixFileChoices == { NoFile, File(JsonFixTemplate) }

CustomPathChoices ==
    { NoPath, Path(NoFile), Path(File(BlankTemplate)), Path(File(RequiredTemplate)),
      Path(File(IncompleteTemplate)) }

PromptsInit ==
    /\ ProjectInit
    /\ stored_translations = <<>>
    /\ stored_progress = EmptyProgress
    /\ args = CHOOSE a \in [batch_size : BatchSizeChoices,
                              batch_max_bytes : BatchMaxBytesChoices,
                              max_retries : MaxRetriesChoices,
                              model : ModelChoices,
                              dst_language : DstLanguageChoices] : TRUE
    /\ DriverUnused
    /\ FunctionsUnused
    /\ pm_files \in { f \in [PromptKinds -> [flat : TranslationFileChoices \cup JsonFixFileChoices,
                                              nested : TranslationFileChoices \cup JsonFixFileChoices]] :
                          /\ f["translation"].flat \in TranslationFileChoices
                          /\ f["translation"].nested \in TranslationFileChoices
                          /\ f["json_fix"].flat \in JsonFixFileChoices
                          /\ f["json_fix"].nested \in JsonFixFileChoices }
    /\ pm_cache = EmptyCache
    /\ pm_call = NoCall
    /\ pm_result = NoResult

\* manager.load_prompt(prompt_type, custom_prompt_path, use_cache, validate, strict_validation)
LoadPromptCall ==
    \E prompt_type \in PromptKinds, custom_prompt_path \in CustomPathChoices,
       use_cache \in BOOLEAN, validate \in BOOLEAN, strict_validation \in BOOLEAN :
        LET loaded == LoadPrompt(pm_files, pm_cache, prompt_type, custom_prompt_path,
                                 use_cache, validate, strict_validation)
        IN  /\ pm_call' = [fn |-> "load_prompt", prompt_type |-> prompt_type,
                           custom_prompt_path |-> custom_prompt_path, use_cache |-> use_cache,
                           validate |-> validate, strict_validation |-> strict_validation]
            /\ pm_result' = Returned(loaded.prompt)
            /\ pm_cache' = loaded.cache
            /\ UNCHANGED << project, driver, functions, pm_files >>

\* manager.clear_cache(prompt_type)
ClearCacheCall ==
    \E prompt_type \in PromptKinds \cup {""} :
        /\ pm_call' = [fn |-> "clear_cache", prompt_type |-> prompt_type]
        /\ pm_result' = NoResult
        /\ pm_cache' = ClearCache(pm_cache, prompt_type)
        /\ UNCHANGED << project, driver, functions, pm_files >>

PromptsNext ==
    \/ LoadPromptCall
    \/ ClearCacheCall

PromptsSpec == PromptsInit /\ [][PromptsNext]_vars

(***************************************************************************)
(* C38.  Every template, other than the empty one, that load_prompt        *)
(* returns for a call with validation on and strict holds all the          *)
(* placeholders required for its kind, whatever calls came before.          *)
(***************************************************************************)
StrictLoad ==
    /\ pm_call.fn = "load_prompt"
    /\ pm_call.validate
    /\ pm_call.strict_validation
    /\ pm_result.returned

C38_StrictLoadsValidated ==
    (StrictLoad /\ pm_result.value # <<>>) =>
        MissingPlaceholders(pm_call.prompt_type, pm_result.value) = {}

\* the one way to a template that lacks a placeholder: it was in the cache
C38_OnlyFromCache ==
    (StrictLoad /\ pm_result.value # <<>>
        /\ MissingPlaceholders(pm_call.prompt_type, pm_result.value) # {})
    => (pm_call.use_cache /\ pm_call.prompt_type \in DOMAIN pm_cache
            /\ pm_cache[pm_call.prompt_type] = pm_result.value)

(***************************************************************************)
(* translate when every step it can take is taken in the end: the loop and *)
(* the saves go on, and a driver call in flight returns or fails.  Nothing *)
(* obliges the user to create the project or to call translate.            *)
(***************************************************************************)
OwnStep == VisitRow \/ LoopEnd \/ FinalSave

TranslationCallEnds == TranslationCallFails \/ TranslationCallReturns

FixCallEnds == FixCallFails \/ FixCallReturns

FairSpec ==
    /\ Spec
    /\ WF_vars(OwnStep)
    /\ WF_vars(TranslationCallEnds)
    /\ WF_vars(FixCallEnds)

(***************************************************************************)
(* C39.  Termination: a started translate returns in the end.  On the way, *)
(* the attempt of the translation call in flight is at most the            *)
(* max_retries-th and that of the repair call at most the second; a batch  *)
(* starts its translation call once, when it is dispatched, and its repair *)
(* call at most once, from its translation call; and within a call the     *)
(* attempts are counted one by one.                                         *)
(***************************************************************************)
Running == pc \in {"loop", "call", "fix", "final"}

C39_Termination ==
    /\ Running ~> (pc = "done")
    /\ [](pc = "call" => retry + 1 <= args.max_retries)
    /\ [](pc = "fix" => retry + 1 <= 2)
    /\ [][(pc # "call" /\ pc' = "call")
              => (Len(dispatched') = Len(dispatched) + 1 /\ retry' = 0)]_vars
    /\ [][(pc # "fix" /\ pc' = "fix")
              => (pc = "call" /\ dispatched'[Len(dispatched')].repair.how = "none"
                      /\ Len(dispatched') = Len(dispatched) /\ retry' = 0)]_vars
    /\ [][(InCall /\ pc' = pc) => retry' = retry + 1]_vars

\* translate has returned after a batch whose translation call failed max_retries times
\* and a batch whose repair call failed twice
C39_Witness ==
    /\ pc = "done"
    /\ \E n \in 1..Len(dispatched) : dispatched[n].outcome = "call_failed"
    /\ \E n \in 1..Len(dispatched) : dispatched[n].repair.how = "failed"

(***************************************************************************)
(* C40.  Every driver of the registry has its three capability attributes  *)
(* after construction, and get_best_translation_method returns standard,   *)
(* structured or function for every registered model and requested method. *)
(***************************************************************************)
DriverAsked == f_call.fn = "get_driver" /\ f_result.returned

C40_CapabilitiesDeclared ==
    DriverAsked =>
        /\ CapabilityFields \subseteq DOMAIN GetDriver(f_call.model)
        /\ f_result.value \in {"standard", "structured", "function"}

\* the drivers that declare the three attributes answer as the method computes
C40_DeclaredDriversAnswer ==
    (DriverAsked /\ CapabilityFields \subseteq DOMAIN GetDriver(f_call.model)) =>
        LET self == GetDriver(f_call.model)
        IN  f_result.value = GetBestTranslationMethod(f_call.requested_method,
                                                      self.supports_structured_output,
                                                      self.supports_function_calling,
                                                      self.preferred_method)

=============================================================================
